---- MODULE Spec2Model ----
(***************************************************************************)
(* Soft-delete relational core of the ragchat backend: the users, groups   *)
(* and memberships tables, the service operations over them and the        *)
(* request handlers that call them.                                        *)
(*                                                                         *)
(* A request runs in its own SQLAlchemy session (get_db): it reads the     *)
(* committed tables, keeps its changes in the session, and either commits  *)
(* them or is closed with the changes discarded.  Every operation is an    *)
(* operator from a world (the committed tables, the id sequences, the      *)
(* clock and the schema) to a set of outcomes [w, status, ret]; an action  *)
(* installs one outcome.                                                   *)
(***************************************************************************)
EXTENDS Integers, Sequences, FiniteSets, TLC

\* ---------------------------------------------------------------- bounds
\* Rows per table (the id sequences stop there), the instants a run stamps
\* rows with (MaxTime for a run over the users alone, MaxJointTime for a run
\* over more than one table), and the longest user_ids list of a bulk request.
MaxUsers == 2
MaxGroups == 2
MaxMemberships == 3
MaxTime == 4
MaxJointTime == 3
MaxList == 3
MaxBatch == 2
MaxBatchTime == 2

\* ---------------------------------------------------------------- inputs
Names == {"alice", "bob"}
Emails == {"alice@x.com", "bob@x.com"}
Passwords == {"password123", "password456"}
GroupNames == {"g1", "g2"}
Descriptions == {"first group"}

\* Python None in an optional request field; SQL NULL in a nullable column.
None == "None"
NULL == {}

VARIABLES
  users,             \* committed rows of table users, by id
  groups,            \* committed rows of table groups, by id
  memberships,       \* committed rows of table memberships, by id
  nextUserId,        \* the three id sequences
  nextGroupId,
  nextMembershipId,
  clock,             \* the latest instant any committed row was stamped with
  partialIndex,      \* whether migration a9e515ec096c built the schema
  deadline,          \* the instant after which the run serves no request
  last,              \* what the latest request was and what it was answered
  batch,             \* the bulk membership request that is under way, if any
  session            \* the session get_db has handed to a request served in steps

vars ==
  <<users, groups, memberships, nextUserId, nextGroupId, nextMembershipId,
    clock, partialIndex, deadline, last, batch, session>>

\* The committed database and its environment, as one value.
World ==
  [users |-> users, groups |-> groups, memberships |-> memberships,
   nextUserId |-> nextUserId, nextGroupId |-> nextGroupId,
   nextMembershipId |-> nextMembershipId,
   clock |-> clock, partialIndex |-> partialIndex]

\* The time a request that starts in world w reads from the clock.
Now(w) == w.clock + 1

\* What a handler leaves behind: the world, the answer (status and return
\* value) and how many times it called db.commit() and db.rollback().
Outcome(w, status, ret, commits) ==
  [w |-> w, status |-> status, ret |-> ret, commits |-> commits,
   rollbacks |-> 0]

\* ------------------------------------------------------------ User model
is_active(row) == row.deleted_at = NULL
is_deleted(row) == row.deleted_at # NULL

soft_delete(row, t) == [row EXCEPT !.deleted_at = {t}]

\* passlib's CryptContext: hash is salted and one-way, verify recomputes.
pwd_hash(plain, salt) == [plain |-> plain, salt |-> salt]
verify_password(plain, hashed) == hashed.plain = plain

\* -------------------------------------------------------------- session
\* What a session holds: the rows it has loaded, changed, added or deleted.
\* It starts as the committed tables (autoflush is off, so a query never
\* sees the session's own pending rows).
Session(w) ==
  [users |-> w.users, groups |-> w.groups, memberships |-> w.memberships]

\* (a close that writes the session's users through)
Close_flushing(w, s) == [w EXCEPT !.users = s.users]

\* db.close() in get_db: whatever the session holds uncommitted is dropped.
Close(w, s) == w

\* (a rollback that writes the session's rows through)
Rollback_flushing(w, s) ==
  [w EXCEPT !.users = s.users, !.groups = s.groups,
            !.memberships = s.memberships]

\* db.rollback(): the transaction is undone and the session's changes go.
Rollback(w, s) == w

\* except Exception: db.rollback(); raise, after a db.commit() that raised.
Raise(w, s) ==
  [Outcome(Rollback(w, s), "Error", 0, 1) EXCEPT !.rollbacks = 1]

\* except IntegrityError: db.rollback(); raise, which the routers of create
\* and update answer with 400.
RaiseConflict(w, s) ==
  [Outcome(Rollback(w, s), "Conflict", 0, 1) EXCEPT !.rollbacks = 1]

\* The partial unique indexes of migration a9e515ec096c, over a users table.
UsersIndexOk(U) ==
  \A i, j \in DOMAIN U :
    (i # j /\ is_active(U[i]) /\ is_active(U[j]))
      => (U[i].name # U[j].name /\ U[i].email # U[j].email)

\* UniqueConstraint(user_id, group_id, deleted_at): SQL compares NULLs as
\* distinct, so only rows with the same non-NULL deleted_at collide.
unique_active_membership(M) ==
  \A i, j \in DOMAIN M :
    (i # j /\ M[i].user_id = M[j].user_id /\ M[i].group_id = M[j].group_id)
      => (M[i].deleted_at = NULL \/ M[i].deleted_at # M[j].deleted_at)

\* ForeignKey("users.id"), ForeignKey("groups.id"), checked for new rows.
ForeignKeysOk(w, s) ==
  \A m \in DOMAIN s.memberships \ DOMAIN w.memberships :
    /\ s.memberships[m].user_id \in DOMAIN s.users
    /\ s.memberships[m].group_id \in DOMAIN s.groups

\* onupdate=func.now(): a row whose UPDATE is emitted gets a new updated_at.
Touch(old, new, t) ==
  [i \in DOMAIN new |->
     IF i \in DOMAIN old /\ old[i] # new[i]
       THEN [new[i] EXCEPT !.updated_at = t]
       ELSE new[i]]

Max(a, b) == IF a >= b THEN a ELSE b

\* The latest deleted_at stamp a table carries (0 when it carries none).
LatestStamp(T) ==
  LET stamps == UNION {T[i].deleted_at : i \in DOMAIN T}
  IN IF stamps = {} THEN 0 ELSE CHOOSE t \in stamps : \A u \in stamps : u <= t

\* (a commit on tables that always carry the unique indexes on users)
Commit_indexed(w, s) ==
  LET U == Touch(w.users, s.users, Now(w))
      G == Touch(w.groups, s.groups, Now(w))
      M == Touch(w.memberships, s.memberships, Now(w))
  IN IF ~UsersIndexOk(U) \/ ~unique_active_membership(M) \/ ~ForeignKeysOk(w, s)
       THEN [ok |-> FALSE, w |-> w]
       ELSE [ok |-> TRUE,
             w |-> [w EXCEPT !.users = U, !.groups = G, !.memberships = M,
                             !.clock = Now(w)]]

\* (a commit on tables that never carry them)
Commit_unindexed(w, s) ==
  LET U == Touch(w.users, s.users, Now(w))
      G == Touch(w.groups, s.groups, Now(w))
      M == Touch(w.memberships, s.memberships, Now(w))
  IN IF ~unique_active_membership(M) \/ ~ForeignKeysOk(w, s)
       THEN [ok |-> FALSE, w |-> w]
       ELSE [ok |-> TRUE,
             w |-> [w EXCEPT !.users = U, !.groups = G, !.memberships = M,
                             !.clock = Now(w)]]

\* db.commit() of session s: flush, check the constraints, commit.  A
\* violated constraint raises IntegrityError (ok = FALSE) and the
\* transaction is rolled back: nothing of s is kept.
Commit(w, s) ==
  LET U == Touch(w.users, s.users, Now(w))
      G == Touch(w.groups, s.groups, Now(w))
      M == Touch(w.memberships, s.memberships, Now(w))
      dirty == U # w.users \/ G # w.groups \/ M # w.memberships
  IN IF \/ w.partialIndex /\ ~UsersIndexOk(U)
        \/ ~unique_active_membership(M)
        \/ ~ForeignKeysOk(w, s)
       THEN [ok |-> FALSE, w |-> w]
       ELSE [ok |-> TRUE,
             w |-> [w EXCEPT
                      !.users = U, !.groups = G, !.memberships = M,
                      !.clock = IF dirty
                                  THEN Max(Now(w),
                                           Max(LatestStamp(U),
                                               Max(LatestStamp(G), LatestStamp(M))))
                                  ELSE @]]

\* ------------------------------------------------------------- lookups
get_user_by_id(w, user_id, include_deleted) ==
  {i \in DOMAIN w.users :
     i = user_id /\ (include_deleted \/ is_active(w.users[i]))}

get_user_by_name(w, name, include_deleted) ==
  {i \in DOMAIN w.users :
     w.users[i].name = name /\ (include_deleted \/ is_active(w.users[i]))}

\* (a lookup that forgets the deleted_at filter)
get_user_by_email_unscoped(w, email, include_deleted) ==
  {i \in DOMAIN w.users : w.users[i].email = email}

get_user_by_email(w, email, include_deleted) ==
  {i \in DOMAIN w.users :
     w.users[i].email = email /\ (include_deleted \/ is_active(w.users[i]))}

get_all_users(w, include_deleted) ==
  {i \in DOMAIN w.users : include_deleted \/ is_active(w.users[i])}

is_name_taken(w, name) == get_user_by_name(w, name, FALSE) # {}
is_email_taken(w, email) == get_user_by_email(w, email, FALSE) # {}

\* The rows of table memberships that reference a users row.  The ORM
\* blanks their user_id when the user is deleted (backref without a delete
\* cascade), which the column's NOT NULL refuses.
group_memberships(w, user_id) ==
  {m \in DOMAIN w.memberships : w.memberships[m].user_id = user_id}

user_memberships(w, group_id) ==
  {m \in DOMAIN w.memberships : w.memberships[m].group_id = group_id}

\* ------------------------------------------------------- POST /api/users/
\* UserService.create_user: hash, add, commit, refresh.  The id comes from
\* the table's sequence, which a failed insert does not give back.
UserService_create_user(w, name, email, password) ==
  LET id == w.nextUserId
      row == [name |-> name, email |-> email,
              password |-> pwd_hash(password, Now(w)),
              created_at |-> Now(w), updated_at |-> Now(w),
              deleted_at |-> NULL]
      s == [Session(w) EXCEPT
              !.users = [i \in DOMAIN w.users \cup {id} |->
                           IF i = id THEN row ELSE w.users[i]]]
      w1 == [w EXCEPT !.nextUserId = id + 1]
      c == Commit(w1, s)
  IN IF c.ok THEN Outcome(c.w, "Created", id, 1)
             ELSE RaiseConflict(w1, s)

\* The router: both is_taken checks, then the service call.
\* The name check reads the tables wn, the email check the tables we, and
\* the INSERT meets the tables wc; the three are the same unless another
\* request committed in between.
create_user_at(wn, we, wc, name, email, password) ==
  IF is_name_taken(wn, name)
    THEN Outcome(Close(wc, Session(wc)), "Conflict", 0, 0)
  ELSE IF is_email_taken(we, email)
    THEN Outcome(Close(wc, Session(wc)), "Conflict", 0, 0)
  ELSE UserService_create_user(wc, name, email, password)

create_user(w, name, email, password) ==
  create_user_at(w, w, w, name, email, password)

\* ------------------------------------------------- PUT /api/users/{id}
\* (a password step that never verifies the current password)
PasswordStep_unverified(w, user, req) ==
  IF req.new_password = None THEN [status |-> "ok", user |-> user]
  ELSE IF req.current_password \in {None, ""}
    THEN [status |-> "MissingField", user |-> user]
  ELSE [status |-> "ok",
        user |-> [user EXCEPT !.password = pwd_hash(req.new_password, Now(w))]]

\* The session's copy of the user after the password step (lines 183-193).
PasswordStep(w, user, req) ==
  IF req.new_password = None THEN [status |-> "ok", user |-> user]
  ELSE IF req.current_password \in {None, ""}
    THEN [status |-> "MissingField", user |-> user]
  ELSE IF ~verify_password(req.current_password, user.password)
    THEN [status |-> "InvalidCredential", user |-> user]
  ELSE [status |-> "ok",
        user |-> [user EXCEPT !.password = pwd_hash(req.new_password, Now(w))]]

\* (a name step that checks the name even when it is the user's own)
NameStep_always(w, user, req) ==
  IF req.name # None
    THEN IF is_name_taken(w, req.name)
           THEN [status |-> "Conflict", user |-> user]
           ELSE [status |-> "ok", user |-> [user EXCEPT !.name = req.name]]
    ELSE [status |-> "ok", user |-> user]

\* ... after the name step (lines 196-199).
NameStep(w, user, req) ==
  IF req.name # None /\ req.name # user.name
    THEN IF is_name_taken(w, req.name)
           THEN [status |-> "Conflict", user |-> user]
           ELSE [status |-> "ok", user |-> [user EXCEPT !.name = req.name]]
    ELSE [status |-> "ok", user |-> user]

\* ... after the email step (lines 202-205).
EmailStep(w, user, req) ==
  IF req.email # None /\ req.email # user.email
    THEN IF is_email_taken(w, req.email)
           THEN [status |-> "Conflict", user |-> user]
           ELSE [status |-> "ok", user |-> [user EXCEPT !.email = req.email]]
    ELSE [status |-> "ok", user |-> user]

\* A raise before the commit leaves the changed user in the session, which
\* the request's end closes; only the commit makes a change visible.  The
\* queries read the tables w; the request ends on the tables wc, which are
\* w unless another request committed in between; the name check reads wn
\* and the email check we.  The session holds the attributes the request
\* set; the others are the row's.
update_user_reading(w, wn, we, wc, user_id, req) ==
  IF get_user_by_id(w, user_id, FALSE) = {}
    THEN Outcome(Close(wc, Session(wc)), "NotFound", 0, 0)
  ELSE
    LET p == PasswordStep(w, w.users[user_id], req)
        n == NameStep(wn, p.user, req)
        e == EmailStep(we, n.user, req)
        Held(u) == [Session(wc) EXCEPT
                      !.users[user_id] =
                        [f \in DOMAIN u |->
                           IF u[f] # w.users[user_id][f] THEN u[f] ELSE @[f]]]
    IN IF p.status # "ok"
         THEN Outcome(Close(wc, Held(p.user)), p.status, 0, 0)
       ELSE IF n.status # "ok"
         THEN Outcome(Close(wc, Held(n.user)), n.status, 0, 0)
       ELSE IF e.status # "ok"
         THEN Outcome(Close(wc, Held(e.user)), e.status, 0, 0)
       ELSE LET c == Commit(wc, Held(e.user))
            IN IF c.ok THEN Outcome(c.w, "OK", user_id, 1)
                       ELSE RaiseConflict(wc, Held(e.user))

\* All the queries of update_user read the tables w.
update_user_at(w, wc, user_id, req) ==
  update_user_reading(w, w, w, wc, user_id, req)

update_user(w, user_id, req) == update_user_at(w, w, user_id, req)

\* -------------------------------------- soft delete, restore, hard delete
\* (a soft delete that also soft-deletes the user's memberships)
soft_delete_user_by_id_cascading(w, user_id) ==
  IF get_user_by_id(w, user_id, FALSE) = {}
    THEN Outcome(Close(w, Session(w)), "NotFound", 0, 0)
  ELSE LET s == [Session(w) EXCEPT
                   !.users[user_id] = soft_delete(@, Now(w)),
                   !.memberships =
                     [m \in DOMAIN w.memberships |->
                        IF w.memberships[m].user_id = user_id
                           /\ is_active(w.memberships[m])
                          THEN soft_delete(w.memberships[m], Now(w))
                          ELSE w.memberships[m]]]
           c == Commit(w, s)
       IN IF c.ok THEN Outcome(c.w, "OK", 1, 1)
                  ELSE Raise(w, s)

\* (a soft delete that finds soft-deleted rows too and stamps them again)
soft_delete_user_by_id_restamping(w, user_id) ==
  IF get_user_by_id(w, user_id, TRUE) = {}
    THEN Outcome(Close(w, Session(w)), "NotFound", 0, 0)
  ELSE LET s == [Session(w) EXCEPT
                   !.users[user_id] = soft_delete(@, Now(w))]
           c == Commit(w, s)
       IN IF c.ok THEN Outcome(c.w, "OK", 1, 1)
                  ELSE Raise(w, s)

soft_delete_user_by_id(w, user_id) ==
  IF get_user_by_id(w, user_id, FALSE) = {}
    THEN Outcome(Close(w, Session(w)), "NotFound", 0, 0)
  ELSE LET s == [Session(w) EXCEPT
                   !.users[user_id] = soft_delete(@, Now(w))]
           c == Commit(w, s)
       IN IF c.ok THEN Outcome(c.w, "OK", 1, 1)
                  ELSE Raise(w, s)

\* (a hard delete that only stamps deleted_at)
hard_delete_user_by_id_stamping(w, user_id) ==
  IF get_user_by_id(w, user_id, TRUE) = {}
    THEN Outcome(Close(w, Session(w)), "NotFound", 0, 0)
  ELSE LET s == [Session(w) EXCEPT
                   !.users[user_id] = soft_delete(@, Now(w))]
           c == Commit(w, s)
       IN IF c.ok THEN Outcome(c.w, "OK", 1, 1)
                  ELSE Raise(w, s)

\* (a hard delete that removes the row whatever references it)
hard_delete_user_by_id_unguarded(w, user_id) ==
  IF get_user_by_id(w, user_id, TRUE) = {}
    THEN Outcome(Close(w, Session(w)), "NotFound", 0, 0)
  ELSE Outcome([w EXCEPT !.users = [i \in DOMAIN w.users \ {user_id} |->
                                      w.users[i]],
                         !.clock = Now(w)],
               "OK", 1, 1)

\* db.delete(user) with Membership rows that reference the user: the flush
\* sets their user_id to NULL (backref group_memberships, no delete
\* cascade), which nullable=False refuses: IntegrityError, rollback, raise.
hard_delete_user_by_id(w, user_id) ==
  IF get_user_by_id(w, user_id, TRUE) = {}
    THEN Outcome(Close(w, Session(w)), "NotFound", 0, 0)
  ELSE IF group_memberships(w, user_id) # {}
    THEN Raise(w, [Session(w) EXCEPT
                     !.users = [i \in DOMAIN w.users \ {user_id} |->
                                w.users[i]]])
  ELSE LET s == [Session(w) EXCEPT
                   !.users = [i \in DOMAIN w.users \ {user_id} |->
                                w.users[i]]]
           c == Commit(w, s)
       IN IF c.ok THEN Outcome(c.w, "OK", 1, 1)
                  ELSE Raise(w, s)

\* (a restore that also resets the name)
restore_user_by_id_renaming(w, user_id) ==
  IF get_user_by_id(w, user_id, TRUE) = {} \/ ~is_deleted(w.users[user_id])
    THEN Outcome(Close(w, Session(w)), "NotFound", 0, 0)
  ELSE LET s == [Session(w) EXCEPT
                   !.users[user_id].deleted_at = NULL,
                   !.users[user_id].name = "restored"]
           c == Commit(w, s)
       IN IF c.ok THEN Outcome(c.w, "OK", 1, 1)
                  ELSE Raise(w, s)

\* (a restore that returns False when the name or the email is taken)
restore_user_by_id_checking(w, user_id) ==
  IF get_user_by_id(w, user_id, TRUE) = {} \/ ~is_deleted(w.users[user_id])
    THEN Outcome(Close(w, Session(w)), "NotFound", 0, 0)
  ELSE IF \/ is_name_taken(w, w.users[user_id].name)
          \/ is_email_taken(w, w.users[user_id].email)
    THEN Outcome(Close(w, Session(w)), "NotFound", 0, 0)
  ELSE LET s == [Session(w) EXCEPT
                   !.users[user_id].deleted_at = NULL]
           c == Commit(w, s)
       IN IF c.ok THEN Outcome(c.w, "OK", 1, 1)
                  ELSE Raise(w, s)

restore_user_by_id(w, user_id) ==
  IF get_user_by_id(w, user_id, TRUE) = {} \/ ~is_deleted(w.users[user_id])
    THEN Outcome(Close(w, Session(w)), "NotFound", 0, 0)
  ELSE LET s == [Session(w) EXCEPT
                   !.users[user_id].deleted_at = NULL]
           c == Commit(w, s)
       IN IF c.ok THEN Outcome(c.w, "OK", 1, 1)
                  ELSE Raise(w, s)

\* (a delete-all that stamps the soft-deleted users again)
soft_delete_all_users_restamping(w) ==
  LET s == [Session(w) EXCEPT
              !.users = [i \in DOMAIN w.users |->
                           soft_delete(w.users[i], Now(w))]]
      c == Commit(w, s)
  IN IF c.ok THEN Outcome(c.w, "OK", Cardinality(DOMAIN w.users), 1)
             ELSE Raise(w, s)

\* The loop stamps the users one after the other without a query in
\* between; they get the same instant.
soft_delete_all_users(w) ==
  LET active == get_all_users(w, FALSE)
      s == [Session(w) EXCEPT
              !.users = [i \in DOMAIN w.users |->
                           IF i \in active
                             THEN soft_delete(w.users[i], Now(w))
                             ELSE w.users[i]]]
      c == Commit(w, s)
  IN IF c.ok THEN Outcome(c.w, "OK", Cardinality(active), 1)
             ELSE Raise(w, s)

\* ----------------------------------------------------------------- groups
\* (a lookup that also finds soft-deleted groups)
get_group_by_id_unscoped(w, group_id, include_deleted) ==
  {i \in DOMAIN w.groups : i = group_id}

get_group_by_id(w, group_id, include_deleted) ==
  {i \in DOMAIN w.groups :
     i = group_id /\ (include_deleted \/ is_active(w.groups[i]))}

get_group_by_name(w, name, include_deleted) ==
  {i \in DOMAIN w.groups :
     w.groups[i].name = name /\ (include_deleted \/ is_active(w.groups[i]))}

get_all_groups(w, include_deleted) ==
  {i \in DOMAIN w.groups : include_deleted \/ is_active(w.groups[i])}

is_group_name_taken(w, name) == get_group_by_name(w, name, FALSE) # {}

GroupService_create_group(w, name, description) ==
  LET id == w.nextGroupId
      row == [name |-> name, description |-> description,
              created_at |-> Now(w), updated_at |-> Now(w),
              deleted_at |-> NULL]
      s == [Session(w) EXCEPT
              !.groups = [i \in DOMAIN w.groups \cup {id} |->
                            IF i = id THEN row ELSE w.groups[i]]]
      w1 == [w EXCEPT !.nextGroupId = id + 1]
      c == Commit(w1, s)
  IN IF c.ok THEN Outcome(c.w, "Created", id, 1)
             ELSE RaiseConflict(w1, s)

\* POST /api/groups/
\* The name check reads the tables w, the INSERT meets the tables wc.
create_group_at(w, wc, name, description) ==
  IF is_group_name_taken(w, name)
    THEN Outcome(Close(wc, Session(wc)), "Conflict", 0, 0)
    ELSE GroupService_create_group(wc, name, description)

create_group(w, name, description) == create_group_at(w, w, name, description)

update_group(w, group_id, req) ==
  IF get_group_by_id(w, group_id, FALSE) = {}
    THEN Outcome(Close(w, Session(w)), "NotFound", 0, 0)
  ELSE
    LET group == w.groups[group_id]
        renamed == req.name # None /\ req.name # group.name
        g1 == IF renamed THEN [group EXCEPT !.name = req.name] ELSE group
        g2 == IF req.description # None
                THEN [g1 EXCEPT !.description = req.description] ELSE g1
    IN IF renamed /\ is_group_name_taken(w, req.name)
         THEN Outcome(Close(w, Session(w)), "Conflict", 0, 0)
         ELSE LET s == [Session(w) EXCEPT !.groups[group_id] = g2]
                  c == Commit(w, s)
              IN IF c.ok THEN Outcome(c.w, "OK", group_id, 1)
                         ELSE RaiseConflict(w, s)

soft_delete_group_by_id(w, group_id) ==
  IF get_group_by_id(w, group_id, FALSE) = {}
    THEN Outcome(Close(w, Session(w)), "NotFound", 0, 0)
  ELSE LET s == [Session(w) EXCEPT
                   !.groups[group_id] = soft_delete(@, Now(w))]
           c == Commit(w, s)
       IN IF c.ok THEN Outcome(c.w, "OK", 1, 1)
                  ELSE Raise(w, s)

hard_delete_group_by_id(w, group_id) ==
  IF get_group_by_id(w, group_id, TRUE) = {}
    THEN Outcome(Close(w, Session(w)), "NotFound", 0, 0)
  ELSE IF user_memberships(w, group_id) # {}
    THEN Raise(w, [Session(w) EXCEPT
                     !.groups = [i \in DOMAIN w.groups \ {group_id} |->
                                w.groups[i]]])
  ELSE LET s == [Session(w) EXCEPT
                   !.groups = [i \in DOMAIN w.groups \ {group_id} |->
                                 w.groups[i]]]
           c == Commit(w, s)
       IN IF c.ok THEN Outcome(c.w, "OK", 1, 1)
                  ELSE Raise(w, s)

restore_group_by_id(w, group_id) ==
  IF get_group_by_id(w, group_id, TRUE) = {} \/ ~is_deleted(w.groups[group_id])
    THEN Outcome(Close(w, Session(w)), "NotFound", 0, 0)
  ELSE LET s == [Session(w) EXCEPT
                   !.groups[group_id].deleted_at = NULL]
           c == Commit(w, s)
       IN IF c.ok THEN Outcome(c.w, "OK", 1, 1)
                  ELSE Raise(w, s)

soft_delete_all_groups(w) ==
  LET active == get_all_groups(w, FALSE)
      s == [Session(w) EXCEPT
              !.groups = [i \in DOMAIN w.groups |->
                            IF i \in active
                              THEN soft_delete(w.groups[i], Now(w))
                              ELSE w.groups[i]]]
      c == Commit(w, s)
  IN IF c.ok THEN Outcome(c.w, "OK", Cardinality(active), 1)
             ELSE Raise(w, s)

\* ------------------------------------------------------------ memberships
\* The query all four operations run: the committed active rows of a pair.
\* .first() takes any one of them (no ORDER BY).
ActiveMemberships(w, user_id, group_id) ==
  {m \in DOMAIN w.memberships :
     /\ w.memberships[m].user_id = user_id
     /\ w.memberships[m].group_id = group_id
     /\ is_active(w.memberships[m])}

is_member_of_group(w, user_id, group_id) ==
  ActiveMemberships(w, user_id, group_id) # {}

\* Membership(user_id=..., group_id=...) for each listed user, added to the
\* session in order; the flush numbers them from the sequence.
WithNewMemberships(w, group_id, user_ids) ==
  LET first == w.nextMembershipId
      new == first .. (first + Len(user_ids) - 1)
  IN [m \in DOMAIN w.memberships \cup new |->
        IF m \in new
          THEN [user_id |-> user_ids[m - first + 1], group_id |-> group_id,
                created_at |-> Now(w), updated_at |-> Now(w),
                deleted_at |-> NULL]
          ELSE w.memberships[m]]

\* (an add that looks the user up before the group)
add_member_to_group_user_first(w, group_id, user_id) ==
  IF get_user_by_id(w, user_id, FALSE) = {}
    THEN Outcome(Close(w, Session(w)), "NotFoundUser", 0, 0)
  ELSE IF get_group_by_id(w, group_id, FALSE) = {}
    THEN Outcome(Close(w, Session(w)), "NotFoundGroup", 0, 0)
  ELSE IF ActiveMemberships(w, user_id, group_id) # {}
    THEN Outcome(Close(w, Session(w)), "AlreadyMember", 0, 0)
  ELSE
    LET s == [Session(w) EXCEPT
                !.memberships = WithNewMemberships(w, group_id, <<user_id>>)]
        w1 == [w EXCEPT !.nextMembershipId = @ + 1]
        c == Commit(w1, s)
    IN IF c.ok THEN Outcome(c.w, "Created", w.nextMembershipId, 1)
               ELSE Outcome(Close(w1, s), "Error", 0, 1)

\* The three queries read the tables w; the INSERT and the commit meet the
\* tables wc, which are w unless another request committed in between.
add_member_to_group_at(w, wc, group_id, user_id) ==
  IF get_group_by_id(w, group_id, FALSE) = {}
    THEN Outcome(Close(wc, Session(wc)), "NotFoundGroup", 0, 0)
  ELSE IF get_user_by_id(w, user_id, FALSE) = {}
    THEN Outcome(Close(wc, Session(wc)), "NotFoundUser", 0, 0)
  ELSE IF ActiveMemberships(w, user_id, group_id) # {}
    THEN Outcome(Close(wc, Session(wc)), "AlreadyMember", 0, 0)
  ELSE
    LET s == [Session(wc) EXCEPT
                !.memberships = WithNewMemberships(wc, group_id, <<user_id>>)]
        w1 == [wc EXCEPT !.nextMembershipId = @ + 1]
        c == Commit(w1, s)
    IN IF c.ok THEN Outcome(c.w, "Created", wc.nextMembershipId, 1)
               ELSE Outcome(Close(w1, s), "Error", 0, 1)

add_member_to_group(w, group_id, user_id) ==
  add_member_to_group_at(w, w, group_id, user_id)

\* (a leave that deletes the Membership row instead of stamping it)
remove_member_from_group_deleting(w, group_id, user_id) ==
  LET found == ActiveMemberships(w, user_id, group_id)
  IN IF found = {}
       THEN {Outcome(Close(w, Session(w)), "NotFoundMembership", 0, 0)}
       ELSE {LET s == [Session(w) EXCEPT
                         !.memberships =
                            [k \in DOMAIN w.memberships \ {m} |->
                               w.memberships[k]]]
                 c == Commit(w, s)
             IN IF c.ok THEN Outcome(c.w, "OK", 1, 1)
                        ELSE Outcome(Close(w, s), "Error", 0, 1)
             : m \in found}

\* One outcome per row .first() may return.
remove_member_from_group(w, group_id, user_id) ==
  LET found == ActiveMemberships(w, user_id, group_id)
  IN IF found = {}
       THEN {Outcome(Close(w, Session(w)), "NotFoundMembership", 0, 0)}
       ELSE {LET s == [Session(w) EXCEPT
                         !.memberships[m] = soft_delete(@, Now(w))]
                 c == Commit(w, s)
             IN IF c.ok THEN Outcome(c.w, "OK", 1, 1)
                        ELSE Outcome(Close(w, s), "Error", 0, 1)
             : m \in found}

\* f"ID {user_id} のユーザーが見つかりません"
NotFoundMessage(user_id) == [text |-> "not found", user_id |-> user_id]

\* The loop of add_multiple_members_to_group over what is left of user_ids.
\* acc.pending are the users whose Membership the session holds unflushed.
RECURSIVE AddEach(_, _, _, _)
AddEach(w, group_id, user_ids, acc) ==
  IF user_ids = << >> THEN acc
  ELSE
    LET user_id == Head(user_ids)
        next ==
          IF get_user_by_id(w, user_id, FALSE) = {}
            THEN [acc EXCEPT !.errors = Append(@, NotFoundMessage(user_id))]
          ELSE IF ActiveMemberships(w, user_id, group_id) # {}
            THEN [acc EXCEPT !.already_member_count = @ + 1]
          ELSE [acc EXCEPT !.pending = Append(@, user_id),
                           !.added_count = @ + 1]
    IN AddEach(w, group_id, Tail(user_ids), next)

\* (a batch that rolls back when any id was not found)
add_multiple_members_to_group_aborting(w, group_id, user_ids) ==
  IF get_group_by_id(w, group_id, FALSE) = {}
    THEN Outcome(Close(w, Session(w)), "NotFoundGroup", 0, 0)
  ELSE
    LET acc == AddEach(w, group_id, user_ids,
                       [pending |-> << >>, added_count |-> 0,
                        already_member_count |-> 0, errors |-> << >>])
        ret == [added_count |-> acc.added_count,
                already_member_count |-> acc.already_member_count,
                errors |-> acc.errors]
        s == [Session(w) EXCEPT
                !.memberships = WithNewMemberships(w, group_id, acc.pending)]
        w1 == [w EXCEPT !.nextMembershipId = @ + Len(acc.pending)]
        c == Commit(w1, s)
    IN IF acc.errors # << >> THEN Outcome(Close(w1, s), "Error", 0, 0)
       ELSE IF c.ok THEN Outcome(c.w, "Created", ret, 1)
       ELSE Outcome(Close(w1, s), "Error", 0, 1)

\* The counters and the session before the first item.
NothingAdded ==
  [pending |-> << >>, added_count |-> 0, already_member_count |-> 0,
   errors |-> << >>]

\* (a summary that leaves the error strings out)
CommitAdded_errorless(w, group_id, acc) ==
  LET ret == [added_count |-> acc.added_count,
              already_member_count |-> acc.already_member_count,
              errors |-> << >>]
      s == [Session(w) EXCEPT
              !.memberships = WithNewMemberships(w, group_id, acc.pending)]
      w1 == [w EXCEPT !.nextMembershipId = @ + Len(acc.pending)]
      c == Commit(w1, s)
  IN IF c.ok THEN Outcome(c.w, "Created", ret, 1)
             ELSE Outcome(Close(w1, s), "Error", 0, 1)

\* After the loop: db.commit() and the summary.
CommitAdded(w, group_id, acc) ==
  LET ret == [added_count |-> acc.added_count,
              already_member_count |-> acc.already_member_count,
              errors |-> acc.errors]
      s == [Session(w) EXCEPT
              !.memberships = WithNewMemberships(w, group_id, acc.pending)]
      w1 == [w EXCEPT !.nextMembershipId = @ + Len(acc.pending)]
      c == Commit(w1, s)
  IN IF c.ok THEN Outcome(c.w, "Created", ret, 1)
             ELSE Outcome(Close(w1, s), "Error", 0, 1)

add_multiple_members_to_group(w, group_id, user_ids) ==
  IF get_group_by_id(w, group_id, FALSE) = {}
    THEN Outcome(Close(w, Session(w)), "NotFoundGroup", 0, 0)
    ELSE CommitAdded(w, group_id, AddEach(w, group_id, user_ids, NothingAdded))

\* The loop of remove_multiple_members_from_group: every set of counters
\* and session rows it can end with.  The query reads the committed rows,
\* so a row this session has already stamped is found again; each
\* soft_delete reads the clock anew.
RECURSIVE RemoveEach(_, _, _, _)
RemoveEach(w, group_id, user_ids, acc) ==
  IF user_ids = << >> THEN {acc}
  ELSE
    LET found == ActiveMemberships(w, Head(user_ids), group_id)
    IN IF found = {}
         THEN RemoveEach(w, group_id, Tail(user_ids),
                         [acc EXCEPT !.not_member_count = @ + 1])
         ELSE UNION {
                RemoveEach(w, group_id, Tail(user_ids),
                           [acc EXCEPT
                              !.rows[m] = soft_delete(@, Now(w) + acc.removed_count),
                              !.removed_count = @ + 1])
                : m \in found}

\* After the loop: db.commit() and the summary.
CommitRemoved(w, acc) ==
  LET ret == [removed_count |-> acc.removed_count,
              not_member_count |-> acc.not_member_count,
              errors |-> << >>]
      s == [Session(w) EXCEPT !.memberships = acc.rows]
      c == Commit(w, s)
  IN IF c.ok THEN Outcome(c.w, "OK", ret, 1)
             ELSE Outcome(Close(w, s), "Error", 0, 1)

\* (a bulk remove that looks the group up first, as the bulk add does)
remove_multiple_members_from_group_checking(w, group_id, user_ids) ==
  IF get_group_by_id(w, group_id, FALSE) = {}
    THEN {Outcome(Close(w, Session(w)), "NotFoundGroup", 0, 0)}
    ELSE {CommitRemoved(w, acc) :
            acc \in RemoveEach(w, group_id, user_ids,
                               [rows |-> w.memberships, removed_count |-> 0,
                                not_member_count |-> 0])}

remove_multiple_members_from_group(w, group_id, user_ids) ==
  {CommitRemoved(w, acc) :
     acc \in RemoveEach(w, group_id, user_ids,
                        [rows |-> w.memberships, removed_count |-> 0,
                         not_member_count |-> 0])}

\* ------------------------------------------------------------------ auth
\* (an authentication that looks soft-deleted users up as well)
authenticate_user_of_any(w, email, password) ==
  LET found == get_user_by_email(w, email, TRUE)
  IN IF found = {} THEN {{}}
     ELSE {IF verify_password(password, w.users[u].password) THEN {u} ELSE {}
           : u \in found}

\* AuthService.authenticate_user: every answer it can give, {} for None
\* and {u} for the user row u.  The lookup's .first() picks any one row
\* that matches; the password is verified against that row only.
authenticate_user(w, email, password) ==
  LET found == get_user_by_email(w, email, FALSE)
  IN IF found = {} THEN {{}}
     ELSE {IF verify_password(password, w.users[u].password) THEN {u} ELSE {}
           : u \in found}

\* jwt.encode of the claims with the server's key; jwt.decode gives the
\* claims back.
create_access_token(data) == [claims |-> data, signed |-> TRUE]

\* AuthService.login_user behind POST /api/auth/login: 401 when the
\* authentication answers None, else a token for the user's email.
\* Nothing is written and the session is closed.
login_user(w, user_login) ==
  {IF a = {}
     THEN Outcome(Close(w, Session(w)), "Unauthorized",
                  [detail |-> "invalid email or password"], 0)
     ELSE LET u == CHOOSE i \in a : TRUE
          IN Outcome(Close(w, Session(w)), "OK",
                     [access_token |->
                        create_access_token([sub |-> w.users[u].email]),
                      token_type |-> "bearer",
                      user |-> [id |-> u, name |-> w.users[u].name,
                                email |-> w.users[u].email]], 0)
   : a \in authenticate_user(w, user_login.email, user_login.password)}

\* The status code the login route answers with.
login_status(status) ==
  CASE status = "OK" -> 200
    [] status = "Unauthorized" -> 401
    [] status = "Error" -> 500

\* ---------------------------------------------------------------- routers
\* The HTTP status a router answers an outcome of its service call with.
\* restore_* and hard_delete_* are service operations without a route.
http_status(op, status) ==
  CASE status = "Created" -> 201
    [] status = "OK" -> 200
    [] status = "Error" -> 500
    [] status = "NotFound" -> 404
    [] status = "NotFoundMembership" -> 404
    [] status \in {"Conflict", "MissingField", "InvalidCredential",
                   "NotFoundGroup", "NotFoundUser", "AlreadyMember"} -> 400

\* ---------------------------------------------------------------- inputs
\* Ids a request may name: every row's, and one that no row has.
UserIds == DOMAIN users \cup {nextUserId}
GroupIds == DOMAIN groups \cup {nextGroupId}

\* Request bodies.  An update may ask for a name no user was created with.
UserUpdates ==
  [name : Names \cup {"carol", None}, email : Emails \cup {None},
   current_password : Passwords \cup {None, ""},
   new_password : Passwords \cup {None}]

GroupUpdates ==
  [name : GroupNames \cup {None}, description : Descriptions \cup {None}]

\* user_ids: List[int] with min_length=1.
UserIdLists == UNION {[1..n -> UserIds] : n \in 1..MaxList}

\* ---------------------------------------------------------------- actions
\* No bulk membership request is under way.
NoBatch == [kind |-> "none"]

\* No request served in steps holds a session.
NoSession == [state |-> "none"]

\* The committed tables become those of w.
SetWorld(w) ==
  /\ w.clock <= deadline
  /\ w.nextUserId <= MaxUsers + 1
  /\ w.nextGroupId <= MaxGroups + 1
  /\ w.nextMembershipId <= MaxMemberships + 1
  /\ users' = w.users
  /\ groups' = w.groups
  /\ memberships' = w.memberships
  /\ nextUserId' = w.nextUserId
  /\ nextGroupId' = w.nextGroupId
  /\ nextMembershipId' = w.nextMembershipId
  /\ clock' = w.clock
  /\ UNCHANGED <<partialIndex, deadline>>

\* Install an outcome: the world it leaves and what the caller was told.
Install(op, r) ==
  /\ SetWorld(r.w)
  /\ last' = [op |-> op, status |-> r.status, ret |-> r.ret,
              commits |-> r.commits]

\* A request served from its first query to its answer in one step.
Apply(op, r) ==
  /\ Install(op, r)
  /\ UNCHANGED <<batch, session>>

CreateUser ==
  \E name \in Names, email \in Emails, password \in Passwords :
    Apply("create_user", create_user(World, name, email, password))

UpdateUser ==
  \E user_id \in UserIds, req \in UserUpdates :
    Apply("update_user", update_user(World, user_id, req))

SoftDeleteUser ==
  \E user_id \in UserIds :
    Apply("soft_delete_user_by_id", soft_delete_user_by_id(World, user_id))

HardDeleteUser ==
  \E user_id \in UserIds :
    Apply("hard_delete_user_by_id", hard_delete_user_by_id(World, user_id))

RestoreUser ==
  \E user_id \in UserIds :
    Apply("restore_user_by_id", restore_user_by_id(World, user_id))

SoftDeleteAllUsers ==
  Apply("soft_delete_all_users", soft_delete_all_users(World))

CreateGroup ==
  \E name \in GroupNames, description \in Descriptions \cup {None} :
    Apply("create_group", create_group(World, name, description))

UpdateGroup ==
  \E group_id \in GroupIds, req \in GroupUpdates :
    Apply("update_group", update_group(World, group_id, req))

SoftDeleteGroup ==
  \E group_id \in GroupIds :
    Apply("soft_delete_group_by_id", soft_delete_group_by_id(World, group_id))

HardDeleteGroup ==
  \E group_id \in GroupIds :
    Apply("hard_delete_group_by_id", hard_delete_group_by_id(World, group_id))

RestoreGroup ==
  \E group_id \in GroupIds :
    Apply("restore_group_by_id", restore_group_by_id(World, group_id))

SoftDeleteAllGroups ==
  Apply("soft_delete_all_groups", soft_delete_all_groups(World))

AddMember ==
  \E group_id \in GroupIds, user_id \in UserIds :
    Apply("add_member_to_group", add_member_to_group(World, group_id, user_id))

RemoveMember ==
  \E group_id \in GroupIds, user_id \in UserIds :
    \E r \in remove_member_from_group(World, group_id, user_id) :
      Apply("remove_member_from_group", r)

BulkAdd ==
  \E group_id \in GroupIds, user_ids \in UserIdLists :
    Apply("add_multiple_members_to_group",
          add_multiple_members_to_group(World, group_id, user_ids))

BulkRemove ==
  \E group_id \in GroupIds, user_ids \in UserIdLists :
    \E r \in remove_multiple_members_from_group(World, group_id, user_ids) :
      Apply("remove_multiple_members_from_group", r)

\* ---------------------------------------------------------- specifications
\* Empty tables.  The schema is the one Base.metadata.create_all builds from
\* the models (no unique index on users) or the migrated one.
EmptyTables ==
  /\ users = << >>
  /\ groups = << >>
  /\ memberships = << >>
  /\ nextUserId = 1
  /\ nextGroupId = 1
  /\ nextMembershipId = 1
  /\ clock = 0
  /\ partialIndex \in BOOLEAN
  /\ last = [op |-> "init", status |-> "OK", ret |-> 0, commits |-> 0]
  /\ batch = NoBatch
  /\ session = NoSession

Init == EmptyTables /\ deadline = MaxTime

InitEntities == EmptyTables /\ deadline = MaxJointTime

NextUsers ==
  \/ CreateUser
  \/ UpdateUser
  \/ SoftDeleteUser
  \/ HardDeleteUser
  \/ RestoreUser
  \/ SoftDeleteAllUsers

NextGroups ==
  \/ CreateGroup
  \/ UpdateGroup
  \/ SoftDeleteGroup
  \/ HardDeleteGroup
  \/ RestoreGroup
  \/ SoftDeleteAllGroups

NextMemberships ==
  \/ AddMember
  \/ RemoveMember
  \/ BulkAdd
  \/ BulkRemove

\* The user operations, one request at a time.
SpecUsers == Init /\ [][NextUsers]_vars

\* Two users and a group registered, then the membership operations and
\* the soft deletes of their users and group, one request at a time.
InitMembers ==
  /\ users = (1 :> [name |-> "alice", email |-> "alice@x.com",
                    password |-> pwd_hash("password123", 1),
                    created_at |-> 1, updated_at |-> 1, deleted_at |-> NULL]
              @@
              2 :> [name |-> "bob", email |-> "bob@x.com",
                    password |-> pwd_hash("password456", 2),
                    created_at |-> 2, updated_at |-> 2, deleted_at |-> NULL])
  /\ groups = (1 :> [name |-> "g1", description |-> None,
                     created_at |-> 3, updated_at |-> 3, deleted_at |-> NULL])
  /\ memberships = << >>
  /\ nextUserId = 3
  /\ nextGroupId = 2
  /\ nextMembershipId = 1
  /\ clock = 3
  /\ partialIndex \in BOOLEAN
  /\ deadline = 3 + MaxJointTime
  /\ last = [op |-> "create_group", status |-> "Created", ret |-> 1,
             commits |-> 1]
  /\ batch = NoBatch
  /\ session = NoSession

NextMembers ==
  \/ NextMemberships
  \/ SoftDeleteUser
  \/ SoftDeleteGroup

SpecUpdates == InitMembers /\ [][NextUsers]_vars

SpecMembers == InitMembers /\ [][NextMembers]_vars

\* The user and the group operations, one request at a time.
SpecEntities == InitEntities /\ [][NextUsers \/ NextGroups]_vars

\* ------------------------------------------------------------------ claims
\* The users that are active and hold a name, an email.
ActiveWithName(name) ==
  {i \in DOMAIN users : users[i].deleted_at = NULL /\ users[i].name = name}
ActiveWithEmail(email) ==
  {i \in DOMAIN users : users[i].deleted_at = NULL /\ users[i].email = email}

\* C1: in every state the user operations reach, one request at a time, no
\* two active users share a name and no two active users share an email.
C1_ActiveUsersUnique ==
  /\ \A name \in Names : Cardinality(ActiveWithName(name)) <= 1
  /\ \A email \in Emails : Cardinality(ActiveWithEmail(email)) <= 1

\* C3: while user u is soft-deleted its name and email are free: they count
\* as taken only if another, active user holds them, no active-scoped lookup
\* returns u, and POST /api/users/ with u's name or email (and no value an
\* active user holds) answers 201, adds an active user with those values
\* and leaves u's row as it was.
C3_SoftDeleteFreesNameAndEmail ==
  \A u \in DOMAIN users :
    users[u].deleted_at # NULL =>
      /\ is_name_taken(World, users[u].name)
           <=> ActiveWithName(users[u].name) # {}
      /\ is_email_taken(World, users[u].email)
           <=> ActiveWithEmail(users[u].email) # {}
      /\ u \notin get_user_by_id(World, u, FALSE)
      /\ u \notin get_user_by_name(World, users[u].name, FALSE)
      /\ u \notin get_user_by_email(World, users[u].email, FALSE)
      /\ \A name \in Names, email \in Emails, password \in Passwords :
           ( /\ name = users[u].name \/ email = users[u].email
             /\ ActiveWithName(name) = {}
             /\ ActiveWithEmail(email) = {} )
           => LET r == create_user(World, name, email, password)
              IN /\ r.status = "Created"
                 /\ http_status("create_user", r.status) = 201
                 /\ r.ret \notin DOMAIN users
                 /\ r.w.users[r.ret].name = name
                 /\ r.w.users[r.ret].email = email
                 /\ r.w.users[r.ret].deleted_at = NULL
                 /\ r.w.users[u] = users[u]

\* A new user was registered with the email of a soft-deleted one.
C3_Witness ==
  /\ last.op = "create_user"
  /\ last.status = "Created"
  /\ \E u \in DOMAIN users \ {last.ret} :
       /\ users[u].deleted_at # NULL
       /\ users[u].email = users[last.ret].email

\* The update requests the claims about update_user range over: every
\* request for every active user.
ActiveUsers == {i \in DOMAIN users : users[i].deleted_at = NULL}

\* C9: update_user changes the password only when current_password is
\* supplied and is the stored password: new_password without
\* current_password fails with MissingField, a wrong current_password
\* fails with InvalidCredential, both answer 400 and both leave the user's
\* hash, name and email (the whole committed world) unchanged, whatever
\* name or email the request also carries.
C9_PasswordChangeNeedsCurrent ==
  \A u \in ActiveUsers, req \in UserUpdates :
    LET r == update_user(World, u, req)
        supplied == req.current_password \notin {None, ""}
        right == req.current_password = users[u].password.plain
    IN /\ (req.new_password # None /\ ~supplied)
            => r.status = "MissingField"
       /\ (req.new_password # None /\ supplied /\ ~right)
            => r.status = "InvalidCredential"
       /\ r.status \in {"MissingField", "InvalidCredential"}
            => /\ http_status("update_user", r.status) = 400
               /\ r.w = World
               /\ r.commits = 0
       /\ (u \in DOMAIN r.w.users /\ r.w.users[u].password # users[u].password)
            => (req.new_password # None /\ supplied /\ right)

\* A request with a wrong current password was refused, in a state where
\* the same happens to a request that also renames the user.
C9_Witness ==
  /\ last.op = "update_user"
  /\ last.status = "InvalidCredential"
  /\ \E u \in ActiveUsers, req \in UserUpdates :
       /\ req.name \notin {None, users[u].name}
       /\ req.email \notin {None, users[u].email}
       /\ update_user(World, u, req).status = "InvalidCredential"

\* The tables after a request of another client, a POST /api/users/ or a
\* PUT /api/users/{id} of a name or an email, was committed while an
\* update_user was between its checks and its commit.
AfterConcurrentWrite ==
  LET creates == {create_user(World, n, e, "password123") :
                    n \in Names, e \in Emails}
      updates == {update_user(World, v, req) :
                    v \in ActiveUsers,
                    req \in {q \in UserUpdates :
                               /\ q.new_password = None
                               /\ q.current_password = None
                               /\ (q.name = None) # (q.email = None)}}
  IN {r.w : r \in {c \in creates \cup updates : c.status \in {"Created", "OK"}}}

\* C10: an update_user that fails with Conflict changes no field of any
\* user in the committed tables, also when the request had changed the
\* password, or the name, in its session before the collision; and when
\* the collision is found by the commit, because another request created
\* the name or email after the checks, the tables stay as that request
\* left them.
C10_ConflictChangesNothing ==
  /\ \A u \in UserIds, req \in UserUpdates :
       LET r == update_user(World, u, req)
       IN r.status = "Conflict"
            => /\ r.w.users = users
               /\ r.w.groups = groups
               /\ r.w.memberships = memberships
               /\ http_status("update_user", r.status) = 400
  /\ \A wc \in AfterConcurrentWrite :
       \A u \in UserIds, req \in UserUpdates :
         LET r == update_user_at(World, wc, u, req)
         IN r.status = "Conflict"
              => /\ r.w = wc
                 /\ http_status("update_user", r.status) = 400

\* An update collided, in a state where a request with a valid password
\* change and a free new name collides on its email, and where another
\* request with a valid password change collides at its commit.
C10_Witness ==
  /\ last.op = "update_user"
  /\ last.status = "Conflict"
  /\ \E u \in ActiveUsers, req \in UserUpdates :
       /\ req.new_password # None
       /\ req.current_password = users[u].password.plain
       /\ req.name \notin {None, users[u].name}
       /\ ActiveWithName(req.name) = {}
       /\ req.email \notin {None, users[u].email}
       /\ update_user(World, u, req).status = "Conflict"
  /\ \E u \in ActiveUsers, req \in UserUpdates, wc \in AfterConcurrentWrite :
       /\ req.new_password # None
       /\ wc.users[u] = users[u]
       /\ update_user(World, u, req).status = "OK"
       /\ update_user_at(World, wc, u, req).status = "Conflict"
       /\ update_user_at(World, wc, u, req).commits = 1

\* soft_delete_*_by_id and then restore_*_by_id of the same id, nothing in
\* between: the two outcomes.
UserRoundTrip(u) ==
  LET d == soft_delete_user_by_id(World, u)
  IN [deleted |-> d, restored |-> restore_user_by_id(d.w, u)]

GroupRoundTrip(g) ==
  LET d == soft_delete_group_by_id(World, g)
  IN [deleted |-> d, restored |-> restore_group_by_id(d.w, g)]

ActiveGroups == {i \in DOMAIN groups : groups[i].deleted_at = NULL}

\* C8 as stated: soft delete then restore of an active user or group brings
\* the record back active with every field as before; in between only
\* deleted_at differs, and it ends as NULL.
C8_RoundTripOnlyDeletedAt ==
  /\ \A u \in ActiveUsers :
       LET t == UserRoundTrip(u)
       IN /\ t.deleted.status = "OK" /\ t.restored.status = "OK"
          /\ t.deleted.w.users[u] =
               [users[u] EXCEPT !.deleted_at = t.deleted.w.users[u].deleted_at]
          /\ t.restored.w.users[u] = users[u]
  /\ \A g \in ActiveGroups :
       LET t == GroupRoundTrip(g)
       IN /\ t.deleted.status = "OK" /\ t.restored.status = "OK"
          /\ t.deleted.w.groups[g] =
               [groups[g] EXCEPT !.deleted_at = t.deleted.w.groups[g].deleted_at]
          /\ t.restored.w.groups[g] = groups[g]

\* C8 as amended: the record is back active under the same id with name,
\* email or description, password and created_at as before; the soft
\* delete set deleted_at, the restore cleared it, and both refreshed
\* updated_at; no other field and no other row changed.
C8_RoundTripKeepsFields ==
  /\ \A u \in ActiveUsers :
       LET t == UserRoundTrip(u)
           mid == t.deleted.w.users
           end == t.restored.w.users
       IN /\ t.deleted.status = "OK" /\ t.restored.status = "OK"
          /\ mid[u].deleted_at # NULL
          /\ mid = [users EXCEPT ![u].deleted_at = mid[u].deleted_at,
                                 ![u].updated_at = mid[u].updated_at]
          /\ end[u].deleted_at = NULL
          /\ end = [users EXCEPT ![u].updated_at = end[u].updated_at]
          /\ end[u].updated_at > users[u].updated_at
          /\ t.restored.w.groups = groups
          /\ t.restored.w.memberships = memberships
  /\ \A g \in ActiveGroups :
       LET t == GroupRoundTrip(g)
           mid == t.deleted.w.groups
           end == t.restored.w.groups
       IN /\ t.deleted.status = "OK" /\ t.restored.status = "OK"
          /\ mid[g].deleted_at # NULL
          /\ mid = [groups EXCEPT ![g].deleted_at = mid[g].deleted_at,
                                  ![g].updated_at = mid[g].updated_at]
          /\ end[g].deleted_at = NULL
          /\ end = [groups EXCEPT ![g].updated_at = end[g].updated_at]
          /\ end[g].updated_at > groups[g].updated_at
          /\ t.restored.w.users = users
          /\ t.restored.w.memberships = memberships

\* A user was soft-deleted and has just been restored: it is active again
\* with a refreshed updated_at.
C8_Witness ==
  /\ last.op = "restore_user_by_id"
  /\ last.status = "OK"
  /\ \E u \in ActiveUsers : users[u].updated_at > users[u].created_at

\* ------------------------------------------------- claims on memberships
PairIds(w, user_id, group_id) ==
  {m \in DOMAIN w.memberships :
     /\ w.memberships[m].user_id = user_id
     /\ w.memberships[m].group_id = group_id}

Distinct(user_ids) ==
  \A i, j \in DOMAIN user_ids : user_ids[i] = user_ids[j] => i = j

\* C2 as stated: in every reachable state there is at most one active
\* Membership row per (user_id, group_id) pair.
C2_OneActiveMembershipPerPair ==
  \A u \in UserIds, g \in GroupIds :
    Cardinality(ActiveMemberships(World, u, g)) <= 1

\* C4 as stated: adding a pair of an active user and an active group that
\* has an active Membership fails with AlreadyMember and creates no row;
\* once remove_member_from_group has soft-deleted that Membership, adding
\* the pair again succeeds with a Membership id new to the pair, and the
\* old row stays soft-deleted.
C4_ReAddAfterRemove ==
  \A u \in ActiveUsers, g \in ActiveGroups :
    ActiveMemberships(World, u, g) # {} =>
      /\ add_member_to_group(World, g, u).status = "AlreadyMember"
      /\ add_member_to_group(World, g, u).w = World
      /\ \A r \in remove_member_from_group(World, g, u) :
           LET a == add_member_to_group(r.w, g, u)
           IN /\ r.status = "OK"
              /\ a.status = "Created"
              /\ a.ret \notin PairIds(World, u, g)
              /\ ActiveMemberships(a.w, u, g) = {a.ret}
              /\ \A m \in PairIds(World, u, g) :
                   a.w.memberships[m] = r.w.memberships[m]

\* C5: bulk add to an active group of pairwise-distinct user ids counts the
\* active non-members as added, the active members as already members and
\* reports one "not found" message per id that is no active user, in list
\* order; exactly the added ids gain one new active Membership, every
\* earlier row is untouched, and the batch commits once.
C5_BulkAddCounts ==
  \A g \in ActiveGroups, l \in UserIdLists :
    Distinct(l) =>
      LET r == add_multiple_members_to_group(World, g, l)
          IsUser(u) == u \in ActiveUsers
          IsMember(u) == ActiveMemberships(World, u, g) # {}
          Added(u) == IsUser(u) /\ ~IsMember(u)
          Already(u) == IsUser(u) /\ IsMember(u)
          Missing(u) == ~IsUser(u)
          Count(user_ids, P(_)) ==
            Cardinality({i \in DOMAIN user_ids : P(user_ids[i])})
          new == DOMAIN r.w.memberships \ DOMAIN memberships
      IN /\ r.status = "Created"
         /\ r.commits = 1
         /\ r.ret.added_count = Count(l, Added)
         /\ r.ret.already_member_count = Count(l, Already)
         /\ Len(r.ret.errors) = Count(l, Missing)
         /\ r.ret.errors = [i \in 1..Len(r.ret.errors) |->
                              NotFoundMessage(SelectSeq(l, Missing)[i])]
         /\ \A m \in DOMAIN memberships : r.w.memberships[m] = memberships[m]
         /\ Cardinality(new) = Count(l, Added)
         /\ \A m \in new :
              /\ r.w.memberships[m].group_id = g
              /\ is_active(r.w.memberships[m])
         /\ \A i \in DOMAIN l :
              Cardinality({m \in new : r.w.memberships[m].user_id = l[i]})
                = IF Added(l[i]) THEN 1 ELSE 0

\* A committed bulk add that added one user, found one already a member
\* and reported one id as not found.
C5_Witness ==
  /\ last.op = "add_multiple_members_to_group"
  /\ last.status = "Created"
  /\ last.commits = 1
  /\ last.ret.added_count = 1
  /\ last.ret.already_member_count = 1
  /\ Len(last.ret.errors) = 1

\* C6: bulk add to a group id that does not exist or is soft-deleted fails
\* with NotFoundGroup (HTTP 400) whatever the list holds: nothing stored
\* changes and no commit is issued.
C6_BulkAddGroupNotFound ==
  \A g \in GroupIds \ ActiveGroups, l \in UserIdLists :
    LET r == add_multiple_members_to_group(World, g, l)
    IN /\ r.status = "NotFoundGroup"
       /\ http_status("add_multiple_members_to_group", r.status) = 400
       /\ r.commits = 0
       /\ r.w = World

\* A bulk add was just refused because the group is soft-deleted, while
\* active users it could have added exist.
C6_Witness ==
  /\ last.op = "add_multiple_members_to_group"
  /\ last.status = "NotFoundGroup"
  /\ \E g \in DOMAIN groups : is_deleted(groups[g])
  /\ ActiveUsers # {}

\* C7 as stated: for any list, repeats included, bulk remove reports as
\* removed_count the number of the group's rows it turned from active to
\* soft-deleted, classifies every listed id as removed or not a member,
\* leaves no listed id with an active membership in the group, and commits
\* once.
C7_BulkRemoveCounts ==
  \A g \in GroupIds, l \in UserIdLists :
    \A r \in remove_multiple_members_from_group(World, g, l) :
      /\ r.status = "OK"
      /\ r.commits = 1
      /\ r.ret.removed_count =
           Cardinality({m \in DOMAIN memberships :
                          /\ memberships[m].group_id = g
                          /\ is_active(memberships[m])
                          /\ ~is_active(r.w.memberships[m])})
      /\ r.ret.removed_count + r.ret.not_member_count = Len(l)
      /\ \A i \in DOMAIN l : ActiveMemberships(r.w, l[i], g) = {}

\* ------------------------------------------------------------ hard delete
\* Ids the sequences have handed out whose row is gone: hard-deleted.
GoneUserIds == (1..(nextUserId - 1)) \ DOMAIN users

GoneGroupIds == (1..(nextGroupId - 1)) \ DOMAIN groups

\* C11: a hard delete that returns True, of an active or a soft-deleted
\* record, leaves no row under the id: the lookup with include_deleted=True
\* finds nothing and a restore of the id fails, then and after every later
\* operation (the id never comes back); for an id without a row the call
\* returns False, commits nothing and changes nothing.
C11_HardDeleteIsFinal ==
  /\ [](/\ \A u \in UserIds :
             LET r == hard_delete_user_by_id(World, u)
             IN /\ r.status = "OK"
                     => /\ get_user_by_id(r.w, u, TRUE) = {}
                        /\ restore_user_by_id(r.w, u).status = "NotFound"
                        /\ \A i \in DOMAIN users \ {u} : r.w.users[i] = users[i]
                /\ u \notin DOMAIN users
                     => r.status = "NotFound" /\ r.commits = 0 /\ r.w = World
                /\ u \in DOMAIN users => r.status # "NotFound"
        /\ \A g \in GroupIds :
             LET r == hard_delete_group_by_id(World, g)
             IN /\ r.status = "OK"
                     => /\ get_group_by_id(r.w, g, TRUE) = {}
                        /\ restore_group_by_id(r.w, g).status = "NotFound"
                        /\ \A i \in DOMAIN groups \ {g} : r.w.groups[i] = groups[i]
                /\ g \notin DOMAIN groups
                     => r.status = "NotFound" /\ r.commits = 0 /\ r.w = World
                /\ g \in DOMAIN groups => r.status # "NotFound"
        /\ \A u \in GoneUserIds :
             /\ get_user_by_id(World, u, TRUE) = {}
             /\ restore_user_by_id(World, u).status = "NotFound"
        /\ \A g \in GoneGroupIds :
             /\ get_group_by_id(World, g, TRUE) = {}
             /\ restore_group_by_id(World, g).status = "NotFound")
  /\ [][/\ \A u \in GoneUserIds : u \notin DOMAIN users'
        /\ \A g \in GoneGroupIds : g \notin DOMAIN groups']_vars

\* A restore was refused for an id whose row a hard delete removed while
\* it was soft-deleted or active, with another record still stored.
C11_Witness ==
  /\ last.op = "restore_user_by_id"
  /\ last.status = "NotFound"
  /\ GoneUserIds # {}
  /\ DOMAIN users # {}

\* ------------------------------------------- soft delete / restore guards
\* C12: soft_delete_*_by_id fails (False, HTTP 404) for an id that is
\* absent or already soft-deleted, restore_*_by_id fails for an id that is
\* absent or active; a failing call commits nothing and changes no row, so
\* an earlier deleted_at stays as it was.  In the opposite state the call
\* is not refused.
C12_DeleteRestoreGuards ==
  /\ \A u \in UserIds :
       LET d == soft_delete_user_by_id(World, u)
           r == restore_user_by_id(World, u)
       IN /\ u \notin ActiveUsers
               => /\ d.status = "NotFound" /\ d.commits = 0 /\ d.w = World
                  /\ http_status("soft_delete_user_by_id", d.status) = 404
          /\ u \in ActiveUsers => d.status = "OK"
          /\ (u \notin DOMAIN users \/ u \in ActiveUsers)
               => r.status = "NotFound" /\ r.commits = 0 /\ r.w = World
          /\ u \in DOMAIN users \ ActiveUsers => r.status # "NotFound"
  /\ \A g \in GroupIds :
       LET d == soft_delete_group_by_id(World, g)
           r == restore_group_by_id(World, g)
       IN /\ g \notin ActiveGroups
               => /\ d.status = "NotFound" /\ d.commits = 0 /\ d.w = World
                  /\ http_status("soft_delete_group_by_id", d.status) = 404
          /\ g \in ActiveGroups => d.status = "OK"
          /\ (g \notin DOMAIN groups \/ g \in ActiveGroups)
               => r.status = "NotFound" /\ r.commits = 0 /\ r.w = World
          /\ g \in DOMAIN groups \ ActiveGroups => r.status # "NotFound"

\* A soft delete was just refused while a soft-deleted user is stored,
\* beside an active one that a restore would refuse.
C12_Witness ==
  /\ last.op = "soft_delete_user_by_id"
  /\ last.status = "NotFound"
  /\ DOMAIN users \ ActiveUsers # {}
  /\ ActiveUsers # {}

\* -------------------------------------------------------------- delete all
\* C13: soft_delete_all_users / soft_delete_all_groups returns the number
\* of records that were active, leaves none active, keeps every row that
\* was already soft-deleted as it was, and changes nothing but deleted_at
\* and updated_at of the others; with no active record it returns 0.
C13_DeleteAllCounts ==
  /\ LET r == soft_delete_all_users(World)
     IN /\ r.status = "OK"
        /\ r.ret = Cardinality(ActiveUsers)
        /\ DOMAIN r.w.users = DOMAIN users
        /\ \A i \in DOMAIN users :
             /\ is_deleted(r.w.users[i])
             /\ i \notin ActiveUsers => r.w.users[i] = users[i]
             /\ r.w.users[i] =
                  [users[i] EXCEPT !.deleted_at = r.w.users[i].deleted_at,
                                   !.updated_at = r.w.users[i].updated_at]
        /\ r.w.groups = groups
        /\ ActiveUsers = {} => r.ret = 0 /\ r.w = World
  /\ LET r == soft_delete_all_groups(World)
     IN /\ r.status = "OK"
        /\ r.ret = Cardinality(ActiveGroups)
        /\ DOMAIN r.w.groups = DOMAIN groups
        /\ \A i \in DOMAIN groups :
             /\ is_deleted(r.w.groups[i])
             /\ i \notin ActiveGroups => r.w.groups[i] = groups[i]
             /\ r.w.groups[i] =
                  [groups[i] EXCEPT !.deleted_at = r.w.groups[i].deleted_at,
                                    !.updated_at = r.w.groups[i].updated_at]
        /\ r.w.users = users
        /\ ActiveGroups = {} => r.ret = 0 /\ r.w = World

\* Delete-all of the groups just returned 0, there being no active group,
\* while one user is soft-deleted and another is active.
C13_Witness ==
  /\ last.op = "soft_delete_all_groups"
  /\ last.status = "OK"
  /\ last.ret = 0
  /\ DOMAIN users \ ActiveUsers # {}
  /\ ActiveUsers # {}

\* ------------------------------------------------- add member: the checks
\* C14: add_member_to_group fails with NotFoundGroup when the group is
\* absent or soft-deleted, whatever the user; otherwise with NotFoundUser
\* when the user is absent or soft-deleted; either failure is HTTP 400,
\* commits nothing and changes nothing.  Hence every step that creates
\* Membership rows creates them for a user and a group that are active.
C14_AddMemberChecks ==
  /\ [](\A g \in GroupIds, u \in UserIds :
          LET r == add_member_to_group(World, g, u)
          IN /\ g \notin ActiveGroups
                  => /\ r.status = "NotFoundGroup"
                     /\ http_status("add_member_to_group", r.status) = 400
                     /\ r.commits = 0
                     /\ r.w = World
             /\ (g \in ActiveGroups /\ u \notin ActiveUsers)
                  => /\ r.status = "NotFoundUser"
                     /\ http_status("add_member_to_group", r.status) = 400
                     /\ r.commits = 0
                     /\ r.w = World
             /\ r.status \in {"NotFoundGroup", "NotFoundUser"}
                  => (g \notin ActiveGroups \/ u \notin ActiveUsers))
  /\ [][\A m \in DOMAIN memberships' \ DOMAIN memberships :
          /\ memberships'[m].user_id \in ActiveUsers
          /\ memberships'[m].group_id \in ActiveGroups
          /\ users' = users
          /\ groups' = groups]_vars

\* The tables after another request's soft delete of a user or a group
\* was committed while an add was between its checks and its INSERT.
AfterConcurrentSoftDelete ==
  {r.w : r \in {d \in {soft_delete_user_by_id(World, u) : u \in UserIds}
                        \cup {soft_delete_group_by_id(World, g) : g \in GroupIds} :
                  d.status = "OK"}}

\* C14 as stated, for all requests: every Membership row is created at a
\* moment when its user and its group are active, also when another
\* request's soft delete is committed between the checks and the INSERT.
C14_RowsCreatedWhileActive ==
  \A wc \in {World} \cup AfterConcurrentSoftDelete :
    \A g \in GroupIds, u \in UserIds :
      LET r == add_member_to_group_at(World, wc, g, u)
      IN r.status = "Created"
           => /\ is_active(r.w.users[u])
              /\ is_active(r.w.groups[g])

\* An add was just refused for the group, in a state that holds a
\* membership, a soft-deleted group and a soft-deleted user.
C14_Witness ==
  /\ last.op = "add_member_to_group"
  /\ last.status = "NotFoundGroup"
  /\ memberships # << >>
  /\ DOMAIN groups \ ActiveGroups # {}
  /\ DOMAIN users \ ActiveUsers # {}

\* ------------------------------------------------------------ remove member
\* C15 as stated: remove_member_from_group of a pair without an active
\* Membership fails with NotFoundMembership (HTTP 404) and changes
\* nothing; after a successful remove is_member_of_group is False for the
\* pair and the same remove, repeated at once, fails with
\* NotFoundMembership.
C15_RemoveThenNotMember ==
  \A g \in GroupIds, u \in UserIds :
    \A r \in remove_member_from_group(World, g, u) :
      /\ ActiveMemberships(World, u, g) = {}
           => /\ r.status = "NotFoundMembership"
              /\ http_status("remove_member_from_group", r.status) = 404
              /\ r.commits = 0
              /\ r.w = World
      /\ ActiveMemberships(World, u, g) # {}
           => /\ r.status = "OK"
              /\ ~is_member_of_group(r.w, u, g)
              /\ \A again \in remove_member_from_group(r.w, g, u) :
                   again.status = "NotFoundMembership"

\* ------------------------------------------------------ concurrent requests
\* Two requests overlap: the other one commits (the tables become wc) after
\* this one has started to query and before it commits.  A query of this
\* request reads the tables as they were, or wc once the commit is in.
NameOrEmailUpdates ==
  {q \in UserUpdates : q.new_password = None /\ q.current_password = None}

ConcurrentCreateUser ==
  \E wc \in AfterConcurrentWrite, name \in Names, email \in Emails :
    \E we \in {World, wc} :
    Apply("concurrent create_user",
          create_user_at(World, we, wc, name, email, "password456"))

ConcurrentUpdateUser ==
  \E wc \in AfterConcurrentWrite,
     user_id \in UserIds, req \in NameOrEmailUpdates :
    \E wn \in {World, wc}, we \in {World, wc} :
    /\ wn = wc => we = wc
    /\ Apply("concurrent update_user",
             update_user_reading(World, wn, we, wc, user_id, req))

AfterConcurrentCreateGroup ==
  {r.w : r \in {c \in {create_group(World, n, d) :
                         n \in GroupNames, d \in Descriptions \cup {None}} :
                  c.status = "Created"}}

ConcurrentCreateGroup ==
  \E wc \in AfterConcurrentCreateGroup,
     name \in GroupNames, description \in Descriptions \cup {None} :
    Apply("concurrent create_group",
          create_group_at(World, wc, name, description))

NextRaces ==
  \/ CreateUser
  \/ SoftDeleteUser
  \/ CreateGroup
  \/ ConcurrentCreateUser
  \/ ConcurrentUpdateUser
  \/ ConcurrentCreateGroup

SpecRaces == InitEntities /\ [][NextRaces]_vars

\* Two active users share a name or an email; two active groups a name.
UsersCollide(U) == ~UsersIndexOk(U)

GroupsCollide(G) ==
  \E i, j \in DOMAIN G :
    i # j /\ is_active(G[i]) /\ is_active(G[j]) /\ G[i].name = G[j].name

\* C16: with no unique index on users, two POST /api/users/ for the same
\* free name, or the same free email, that both run their is_taken checks
\* before either commits are both answered 201 and leave two active users
\* with the value; so are two POST /api/groups/ for the same free name.
C16_RaceAdmitsDuplicates ==
  /\ ~partialIndex =>
       \A n1 \in Names, n2 \in Names, e1 \in Emails, e2 \in Emails :
         LET first == create_user(World, n1, e1, "password123")
             second == create_user_at(World, World, first.w, n2, e2,
                                      "password456")
         IN (/\ n1 = n2 \/ e1 = e2
             /\ ~is_name_taken(World, n1) /\ ~is_name_taken(World, n2)
             /\ ~is_email_taken(World, e1) /\ ~is_email_taken(World, e2))
              => /\ first.status = "Created"
                 /\ second.status = "Created"
                 /\ http_status("create_user", second.status) = 201
                 /\ is_active(second.w.users[first.ret])
                 /\ is_active(second.w.users[second.ret])
                 /\ first.ret # second.ret
                 /\ UsersCollide(second.w.users)
  /\ \A n \in GroupNames :
       LET first == create_group(World, n, None)
           second == create_group_at(World, first.w, n, None)
       IN ~is_group_name_taken(World, n)
            => /\ first.status = "Created"
               /\ second.status = "Created"
               /\ first.ret # second.ret
               /\ GroupsCollide(second.w.groups)

\* Two overlapping creates have both been answered 201 and the table
\* holds two active users with the same name or email.
C16_Witness ==
  /\ ~partialIndex
  /\ last.op = "concurrent create_user"
  /\ last.status = "Created"
  /\ UsersCollide(users)

\* C17: with the partial unique indexes in place no reachable state has
\* two active users with the same name or email, and of two overlapping
\* create or update requests for the same name or email the one that
\* commits second is answered Conflict (HTTP 400), whatever it read before
\* the other's commit, and leaves the tables as the other left them.
C17_IndexStopsRace ==
  partialIndex =>
    /\ ~UsersCollide(users)
    /\ \A wc \in AfterConcurrentWrite :
         /\ ~UsersCollide(wc.users)
         /\ \A n \in Names, e \in Emails, we \in {World, wc} :
              LET r == create_user_at(World, we, wc, n, e, "password456")
              IN /\ ~UsersCollide(r.w.users)
                 /\ (is_name_taken(wc, n) \/ is_email_taken(wc, e))
                      => /\ r.status = "Conflict"
                         /\ http_status("create_user", r.status) = 400
                         /\ r.w.users = wc.users
         /\ \A u \in ActiveUsers, req \in NameOrEmailUpdates,
               wn \in {World, wc}, we \in {World, wc} :
              LET r == update_user_reading(World, wn, we, wc, u, req)
                  Others(field, value) ==
                    {v \in DOMAIN wc.users \ {u} :
                       is_active(wc.users[v]) /\ wc.users[v][field] = value}
              IN /\ ~UsersCollide(r.w.users)
                 /\ (\/ /\ req.name \notin {None, users[u].name}
                        /\ Others("name", req.name) # {}
                     \/ /\ req.email \notin {None, users[u].email}
                        /\ Others("email", req.email) # {})
                      => /\ r.status = "Conflict"
                         /\ http_status("update_user", r.status) = 400
                         /\ r.w.users = wc.users

\* With the indexes in place an overlapping create has just been refused
\* although its own checks saw the name and the email free, and an
\* overlapping update would be refused at its commit too.
C17_Witness ==
  /\ partialIndex
  /\ last.op = "concurrent create_user"
  /\ last.status = "Conflict"
  /\ last.commits = 1
  /\ \E wc \in AfterConcurrentWrite, u \in ActiveUsers,
        req \in NameOrEmailUpdates :
       LET r == update_user_reading(World, World, World, wc, u, req)
       IN r.status = "Conflict" /\ r.commits = 1

\* --------------------------------------- bulk requests, one item at a time
\* A bulk request under way is [kind, group_id, todo, acc]: the items left
\* and what the loop has gathered in its session and its counters.  Other
\* requests are served between its steps; each of its queries reads the
\* tables as they are committed then.

\* (a loop that commits each membership as soon as it is added)
AddItemStep_committing(w, b) ==
  LET acc == AddEach(w, b.group_id, <<Head(b.todo)>>, b.acc)
  IN [w |-> CommitAdded(w, b.group_id, acc).w,
      batch |-> [b EXCEPT !.todo = Tail(@),
                          !.acc = [acc EXCEPT !.pending = << >>]]]

\* One turn of the loop of add_multiple_members_to_group.
AddItemStep(w, b) ==
  [w |-> w,
   batch |-> [b EXCEPT !.todo = Tail(@),
                       !.acc = AddEach(w, b.group_id, <<Head(b.todo)>>, @)]]

\* The session's membership rows: the committed ones, with the stamps the
\* loop of remove_multiple_members_from_group has put on some.
Stamped(w, stamps) ==
  [m \in DOMAIN w.memberships |->
     IF m \in DOMAIN stamps
       THEN [w.memberships[m] EXCEPT !.deleted_at = stamps[m]]
       ELSE w.memberships[m]]

StampsOf(w, rows) ==
  [m \in {i \in DOMAIN rows : rows[i].deleted_at # w.memberships[i].deleted_at}
     |-> rows[m].deleted_at]

\* One turn of the loop of remove_multiple_members_from_group: every way
\* it can go (.first() may return any of the pair's active rows).
RemoveItemStep(w, b) ==
  {[w |-> w,
    batch |-> [b EXCEPT !.todo = Tail(@),
                        !.acc = [stamps |-> StampsOf(w, a.rows),
                                 removed_count |-> a.removed_count,
                                 not_member_count |-> a.not_member_count]]]
   : a \in RemoveEach(w, b.group_id, <<Head(b.todo)>>,
                      [rows |-> Stamped(w, b.acc.stamps),
                       removed_count |-> b.acc.removed_count,
                       not_member_count |-> b.acc.not_member_count])}

\* The user_ids of a bulk request served item by item.
BatchLists == UNION {[1..n -> UserIds] : n \in 1..MaxBatch}

\* POST .../bulk-add arrives: the group check, then the loop starts.
BulkAddBegin ==
  /\ batch = NoBatch
  /\ \E group_id \in GroupIds, user_ids \in BatchLists :
       IF get_group_by_id(World, group_id, FALSE) = {}
         THEN Apply("add_multiple_members_to_group",
                    add_multiple_members_to_group(World, group_id, user_ids))
         ELSE /\ batch' = [kind |-> "add", group_id |-> group_id,
                           todo |-> user_ids, acc |-> NothingAdded]
              /\ UNCHANGED <<users, groups, memberships, nextUserId,
                             nextGroupId, nextMembershipId, clock,
                             partialIndex, deadline, last, session>>

BulkAddItem ==
  /\ batch.kind = "add"
  /\ batch.todo # << >>
  /\ LET r == AddItemStep(World, batch)
     IN SetWorld(r.w) /\ batch' = r.batch
  /\ UNCHANGED <<last, session>>

BulkAddCommit ==
  /\ batch.kind = "add"
  /\ batch.todo = << >>
  /\ Install("add_multiple_members_to_group",
             CommitAdded(World, batch.group_id, batch.acc))
  /\ batch' = NoBatch
  /\ UNCHANGED session

\* POST .../bulk-remove arrives: the loop starts, there is no group check.
BulkRemoveBegin ==
  /\ batch = NoBatch
  /\ \E group_id \in GroupIds, user_ids \in BatchLists :
       batch' = [kind |-> "remove", group_id |-> group_id, todo |-> user_ids,
                 acc |-> [stamps |-> << >>, removed_count |-> 0,
                          not_member_count |-> 0]]
  /\ UNCHANGED <<users, groups, memberships, nextUserId, nextGroupId,
                 nextMembershipId, clock, partialIndex, deadline, last, session>>

BulkRemoveItem ==
  /\ batch.kind = "remove"
  /\ batch.todo # << >>
  /\ \E r \in RemoveItemStep(World, batch) :
       SetWorld(r.w) /\ batch' = r.batch
  /\ UNCHANGED <<last, session>>

BulkRemoveCommit ==
  /\ batch.kind = "remove"
  /\ batch.todo = << >>
  /\ Install("remove_multiple_members_from_group",
             CommitRemoved(World,
                           [rows |-> Stamped(World, batch.acc.stamps),
                            removed_count |-> batch.acc.removed_count,
                            not_member_count |-> batch.acc.not_member_count]))
  /\ batch' = NoBatch
  /\ UNCHANGED session

NextBatch ==
  \/ BulkAddBegin
  \/ BulkAddItem
  \/ BulkAddCommit
  \/ BulkRemoveBegin
  \/ BulkRemoveItem
  \/ BulkRemoveCommit
  \/ AddMember
  \/ RemoveMember
  \/ SoftDeleteUser
  \/ HardDeleteUser

\* Two users and a group registered and the first user a member of it.
InitBatch ==
  /\ users = (1 :> [name |-> "alice", email |-> "alice@x.com",
                    password |-> pwd_hash("password123", 1),
                    created_at |-> 1, updated_at |-> 1, deleted_at |-> NULL]
              @@
              2 :> [name |-> "bob", email |-> "bob@x.com",
                    password |-> pwd_hash("password456", 2),
                    created_at |-> 2, updated_at |-> 2, deleted_at |-> NULL])
  /\ groups = (1 :> [name |-> "g1", description |-> None,
                     created_at |-> 3, updated_at |-> 3, deleted_at |-> NULL])
  /\ memberships = (1 :> [user_id |-> 1, group_id |-> 1, created_at |-> 4,
                          updated_at |-> 4, deleted_at |-> NULL])
  /\ nextUserId = 3
  /\ nextGroupId = 2
  /\ nextMembershipId = 2
  /\ clock = 4
  /\ partialIndex \in BOOLEAN
  /\ deadline = 4 + MaxBatchTime
  /\ last = [op |-> "add_member_to_group", status |-> "Created", ret |-> 1,
             commits |-> 1]
  /\ batch = NoBatch
  /\ session = NoSession

SpecBatch == InitBatch /\ [][NextBatch]_vars

\* The items a bulk request under way has dealt with so far.
Handled(b) ==
  IF b.kind = "add"
    THEN b.acc.added_count + b.acc.already_member_count + Len(b.acc.errors)
    ELSE b.acc.removed_count + b.acc.not_member_count

\* C18: a bulk request served item by item among other requests deals with
\* every item in turn whatever became of the one before (a user that is not
\* found only adds to the errors), its turns change no committed membership
\* row, and its one commit comes after the last item: when that commit
\* succeeds all the rows it adds or stamps appear in that same step, and
\* when it fails the membership table is as it was.
C18_SingleCommitPoint ==
  [][/\ (batch.kind # "none" /\ batch'.kind # "none" /\ batch' # batch) =>
          /\ batch.todo # << >>
          /\ batch'.todo = Tail(batch.todo)
          /\ Handled(batch') = Handled(batch) + 1
          /\ memberships' = memberships
     /\ (batch.kind # "none" /\ batch'.kind = "none") =>
          /\ batch.todo = << >>
          /\ last'.commits = 1
          /\ last'.status = "Error" => memberships' = memberships
          /\ (last'.status # "Error" /\ batch.kind = "add") =>
               /\ DOMAIN memberships' =
                    DOMAIN memberships \cup
                    (nextMembershipId ..
                       nextMembershipId + Len(batch.acc.pending) - 1)
               /\ \A i \in 1..Len(batch.acc.pending) :
                    LET m == memberships'[nextMembershipId + i - 1]
                    IN /\ m.user_id = batch.acc.pending[i]
                       /\ m.group_id = batch.group_id
                       /\ m.deleted_at = NULL
               /\ \A m \in DOMAIN memberships : memberships'[m] = memberships[m]
          /\ (last'.status # "Error" /\ batch.kind = "remove") =>
               /\ DOMAIN memberships' = DOMAIN memberships
               /\ \A m \in DOMAIN memberships :
                    IF m \in DOMAIN batch.acc.stamps
                      THEN memberships'[m].deleted_at = batch.acc.stamps[m]
                      ELSE memberships'[m] = memberships[m]
    ]_vars

\* A bulk add whose commit failed: a user it was adding was hard deleted by
\* another request before the commit.
C18_Witness ==
  /\ last.op = "add_multiple_members_to_group"
  /\ last.status = "Error"
  /\ batch = NoBatch
  /\ GoneUserIds # {}

\* The user and the group operations over tables that hold two users, a
\* group and a membership, one request at a time.
SpecFailures == InitBatch /\ [][NextUsers \/ NextGroups]_vars

\* ------------------------------------------------------- failing commits
\* What the delete and restore operations of both services answer in the
\* present tables.
DeleteRestoreOutcomes ==
  {soft_delete_all_users(World), soft_delete_all_groups(World)}
  \cup UNION {{soft_delete_user_by_id(World, i),
               hard_delete_user_by_id(World, i),
               restore_user_by_id(World, i)} : i \in UserIds}
  \cup UNION {{soft_delete_group_by_id(World, i),
               hard_delete_group_by_id(World, i),
               restore_group_by_id(World, i)} : i \in GroupIds}

\* C19: whenever the commit of a soft delete, restore, hard delete or
\* delete-all of a user or a group raises, the operation has called
\* db.rollback() once, it raises to its caller instead of returning, and
\* the committed tables are exactly what they were before the call; an
\* operation that returns has not rolled back.
C19_RaiseRollsBack ==
  \A r \in DeleteRestoreOutcomes :
    /\ r.status \in {"OK", "NotFound", "Error"}
    /\ r.status = "Error" =>
         /\ r.rollbacks = 1
         /\ r.commits = 1
         /\ r.w = World
    /\ r.status # "Error" => r.rollbacks = 0

\* A restore has just raised on the unique index (another active user holds
\* the name) while a hard delete of the same user, still referenced by a
\* membership, would raise as well.
C19_Witness ==
  /\ last.op = "restore_user_by_id"
  /\ last.status = "Error"
  /\ \E i \in DOMAIN users :
       /\ restore_user_by_id(World, i).status = "Error"
       /\ hard_delete_user_by_id(World, i).status = "Error"

\* ------------------------------------------- a request and its session
\* PUT /api/users/{id} served in steps among other requests.  While it is
\* served, session is [state |-> "open", user_id, req, pc, found, status,
\* commits, opened, closed] and, once the lookup has found the user,
\* loaded and user: loaded is the row as the lookup read it, user the
\* session's copy with the attributes set so far; opened and closed count
\* the SessionLocal() and db.close() calls of get_db.

\* The bodies of the request served in steps: a new name or none, an email
\* another user holds or none, a password change or none.
SessionUpdates ==
  {req \in UserUpdates :
     /\ req.name \in {"carol", None}
     /\ req.email \in {"bob@x.com", None}
     /\ req.current_password \in {"password123", None}
     /\ req.new_password \in {"password456", None}}

\* The rows the request's session holds: the committed ones, with the
\* attributes the request has set on its user.
HeldBy(w, q) ==
  IF ~q.found THEN Session(w)
  ELSE [Session(w) EXCEPT
          !.users[q.user_id] =
            [f \in DOMAIN q.user |->
               IF q.user[f] # q.loaded[f] THEN q.user[f] ELSE @[f]]]

\* Depends(get_db): db = SessionLocal(); yield db.
GetDb ==
  /\ session.state # "open"
  /\ clock < deadline
  /\ \E user_id \in UserIds, req \in SessionUpdates :
       session' = [state |-> "open", user_id |-> user_id, req |-> req,
                   pc |-> "lookup", found |-> FALSE,
                   status |-> "running", commits |-> 0,
                   opened |-> 1, closed |-> 0]
  /\ UNCHANGED <<users, groups, memberships, nextUserId, nextGroupId,
                 nextMembershipId, clock, partialIndex, deadline, last, batch>>

\* What a step of UserService.update_user makes of the session.
AfterStep(q, r, next) ==
  [q EXCEPT !.user = r.user,
            !.pc = IF r.status = "ok" THEN next ELSE "raised",
            !.status = IF r.status = "ok" THEN @ ELSE r.status]

\* Steps that leave the committed tables alone.
InSession(q) ==
  /\ session.state = "open"
  /\ session' = q
  /\ UNCHANGED <<users, groups, memberships, nextUserId, nextGroupId,
                 nextMembershipId, clock, partialIndex, deadline, last, batch>>

\* get_user_by_id; the router raises HTTPException(404) on None.
Lookup ==
  /\ session.state = "open" /\ session.pc = "lookup"
  /\ InSession(IF get_user_by_id(World, session.user_id, FALSE) = {}
                 THEN [session EXCEPT !.pc = "raised", !.status = "NotFound"]
                 ELSE [state |-> "open", user_id |-> session.user_id,
                       req |-> session.req, pc |-> "password",
                       found |-> TRUE, loaded |-> users[session.user_id],
                       user |-> users[session.user_id],
                       status |-> session.status,
                       commits |-> session.commits,
                       opened |-> session.opened,
                       closed |-> session.closed])

Password ==
  /\ session.state = "open" /\ session.pc = "password"
  /\ InSession(AfterStep(session,
                         PasswordStep(World, session.user, session.req),
                         "name"))

Name ==
  /\ session.state = "open" /\ session.pc = "name"
  /\ InSession(AfterStep(session,
                         NameStep(World, session.user, session.req),
                         "email"))

Email ==
  /\ session.state = "open" /\ session.pc = "email"
  /\ InSession(AfterStep(session,
                         EmailStep(World, session.user, session.req),
                         "commit"))

\* db.commit(); on IntegrityError db.rollback() and raise.
CommitStep ==
  /\ session.state = "open" /\ session.pc = "commit"
  /\ LET s == HeldBy(World, session)
         c == Commit(World, s)
         w == IF c.ok THEN c.w ELSE RaiseConflict(World, s).w
     IN /\ SetWorld(w)
        /\ session' = [session EXCEPT
                         !.pc = IF c.ok THEN "returned" ELSE "raised",
                         !.status = IF c.ok THEN "OK" ELSE "Conflict",
                         !.commits = 1,
                         !.loaded = w.users[session.user_id],
                         !.user = w.users[session.user_id]]
  /\ UNCHANGED <<last, batch>>

\* A query or the commit raises something no except clause of the router
\* names (the connection is lost): the error leaves the handler unhandled.
Fail ==
  /\ session.state = "open"
  /\ session.pc \in {"lookup", "password", "name", "email", "commit"}
  /\ InSession([session EXCEPT !.pc = "raised", !.status = "Error"])

\* (a get_db without finally: the session is closed after a return only)
CloseSession_on_return ==
  /\ session.state = "open" /\ session.pc = "returned"
  /\ SetWorld(Close(World, HeldBy(World, session)))
  /\ session' = [state |-> "closed", status |-> session.status,
                 discarded |-> FALSE,
                 opened |-> session.opened, closed |-> session.closed + 1]
  /\ last' = [op |-> "update_user", status |-> session.status,
              ret |-> session.user_id, commits |-> session.commits]
  /\ UNCHANGED batch

\* finally: db.close(), after the handler returned or raised.
CloseSession ==
  /\ session.state = "open" /\ session.pc \in {"returned", "raised"}
  /\ SetWorld(Close(World, HeldBy(World, session)))
  /\ session' = [state |-> "closed", status |-> session.status,
                 discarded |-> HeldBy(World, session) # Session(World),
                 opened |-> session.opened, closed |-> session.closed + 1]
  /\ last' = [op |-> "update_user", status |-> session.status,
              ret |-> IF session.status = "OK" THEN session.user_id ELSE 0,
              commits |-> session.commits]
  /\ UNCHANGED batch

\* The steps of the request that holds the session.
RequestStep ==
  \/ Lookup
  \/ Password
  \/ Name
  \/ Email
  \/ CommitStep
  \/ CloseSession

\* Another request, served whole between two steps; it leaves the clock
\* room for the commit of the request under way.
Meanwhile ==
  /\ SoftDeleteUser
  /\ session.state = "open" => clock' < deadline

NextSessions ==
  \/ GetDb
  \/ RequestStep
  \/ Fail
  \/ Meanwhile

SpecSessions == InitBatch /\ [][NextSessions]_vars

\* A handler that has started runs on to its return or raise, and FastAPI
\* then resumes get_db.
SpecSessionsFair == SpecSessions /\ WF_vars(RequestStep)

\* C20: a request served in steps holds the one session get_db opened for
\* it, not yet closed; whether its handler returns or raises (an
\* HTTPException of the router or an error nothing handles), get_db
\* eventually closes that session, once; and every step of a request that
\* does not end with a successful commit, the close included, leaves the
\* committed tables as they were, whatever its session held.
C20_SessionClosed ==
  /\ [](session.state = "open" => session.opened = 1 /\ session.closed = 0)
  /\ [](session.state = "closed" => session.opened = 1 /\ session.closed = 1)
  /\ (session.state = "open") ~> (session.state = "closed")
  /\ (session.state = "open" /\ session.pc = "raised")
       ~> (session.state = "closed" /\ session.status # "OK")
  /\ (session.state = "open" /\ session.pc = "returned")
       ~> (session.state = "closed" /\ session.status = "OK")
  /\ [][(/\ session.state = "open"
         /\ \/ session'.state = "closed"
            \/ /\ session'.pc # session.pc
               /\ ~(session.pc = "commit" /\ session'.pc = "returned"))
        => /\ users' = users
           /\ groups' = groups
           /\ memberships' = memberships]_vars

\* A request that raised after it had set an attribute of its user has had
\* its session closed, and what the session held is gone.
C20_Witness ==
  /\ session.state = "closed"
  /\ session.status = "Conflict"
  /\ session.discarded
  /\ last.op = "update_user"

\* ------------------------------------------------- two adds of one pair
\* C21 as stated: when two add_member_to_group calls for one pair overlap
\* in any way (the second runs its checks before or after the first has
\* committed, and commits after it), the pair has at most one active
\* Membership afterwards.
C21_ConcurrentAddsKeepOne ==
  \A g \in GroupIds, u \in UserIds :
    LET first == add_member_to_group(World, g, u)
    IN (ActiveMemberships(World, u, g) = {} /\ first.status = "Created")
         => \A w \in {World, first.w} :
              LET second == add_member_to_group_at(w, first.w, g, u)
              IN Cardinality(ActiveMemberships(second.w, u, g)) <= 1

\* ------------------------------------------------------------ no cascade
\* What the user and the group operations answer in the present tables.
UserGroupOutcomes ==
  DeleteRestoreOutcomes
  \cup {create_user(World, n, e, p) :
          n \in Names, e \in Emails, p \in Passwords}
  \cup {update_user(World, i, req) : i \in UserIds, req \in UserUpdates}
  \cup {create_group(World, n, d) :
          n \in GroupNames, d \in Descriptions \cup {None}}
  \cup {update_group(World, i, req) : i \in GroupIds, req \in GroupUpdates}

\* The user and the group rows are those of the present tables.
SameUsersAndGroups(w) == w.users = users /\ w.groups = groups

\* C22: no user or group operation changes a row of memberships and no
\* membership operation changes a row of users or groups; so a pair with
\* an active Membership is still a member, by is_member_of_group, after
\* its user or its group has been soft-deleted.
C22_NoCascade ==
  /\ \A r \in UserGroupOutcomes : r.w.memberships = memberships
  /\ \A g \in GroupIds, u \in UserIds :
       /\ SameUsersAndGroups(add_member_to_group(World, g, u).w)
       /\ \A r \in remove_member_from_group(World, g, u) :
            SameUsersAndGroups(r.w)
  /\ \A g \in GroupIds, ids \in UserIdLists :
       /\ SameUsersAndGroups(add_multiple_members_to_group(World, g, ids).w)
       /\ \A r \in remove_multiple_members_from_group(World, g, ids) :
            SameUsersAndGroups(r.w)
  /\ \A u \in UserIds, g \in GroupIds :
       is_member_of_group(World, u, g)
         => /\ LET r == soft_delete_user_by_id(World, u)
               IN r.status = "OK" => is_member_of_group(r.w, u, g)
            /\ LET r == soft_delete_group_by_id(World, g)
               IN r.status = "OK" => is_member_of_group(r.w, u, g)

\* A member of a group has just been soft-deleted and is a member still.
C22_Witness ==
  /\ last.op = "soft_delete_user_by_id"
  /\ last.status = "OK"
  /\ \E u \in DOMAIN users \ ActiveUsers, g \in ActiveGroups :
       is_member_of_group(World, u, g)

\* --------------------------------------------- hard delete and references
\* The users and the groups that Membership rows, active or soft-deleted,
\* reference.
ReferencedUsers == {memberships[m].user_id : m \in DOMAIN memberships}
ReferencedGroups == {memberships[m].group_id : m \in DOMAIN memberships}

\* C23 as stated: a hard delete of a user or group that Membership rows
\* reference returns True, removes the row and leaves the Membership rows
\* in place.
C23_HardDeleteLeavesOrphans ==
  /\ \A u \in ReferencedUsers \cap DOMAIN users :
       LET r == hard_delete_user_by_id(World, u)
       IN /\ r.status = "OK"
          /\ u \notin DOMAIN r.w.users
          /\ r.w.memberships = memberships
  /\ \A g \in ReferencedGroups \cap DOMAIN groups :
       LET r == hard_delete_group_by_id(World, g)
       IN /\ r.status = "OK"
          /\ g \notin DOMAIN r.w.groups
          /\ r.w.memberships = memberships

\* C23, amended: the services check no reference themselves, but a hard
\* delete of a user or group that Membership rows (active or soft-deleted)
\* reference raises at its commit, is rolled back and removes nothing; a
\* hard delete of a record nothing references returns True and removes
\* the row; so no Membership row ever references a missing user or group.
C23_HardDeleteReferencedRaises ==
  /\ ReferencedUsers \subseteq DOMAIN users
  /\ ReferencedGroups \subseteq DOMAIN groups
  /\ \A u \in DOMAIN users :
       LET r == hard_delete_user_by_id(World, u)
       IN IF u \in ReferencedUsers
            THEN r.status = "Error" /\ r.rollbacks = 1 /\ r.w = World
            ELSE /\ r.status = "OK"
                 /\ u \notin DOMAIN r.w.users
                 /\ r.w.memberships = memberships
  /\ \A g \in DOMAIN groups :
       LET r == hard_delete_group_by_id(World, g)
       IN IF g \in ReferencedGroups
            THEN r.status = "Error" /\ r.rollbacks = 1 /\ r.w = World
            ELSE /\ r.status = "OK"
                 /\ g \notin DOMAIN r.w.groups
                 /\ r.w.memberships = memberships

\* A hard delete has just raised while every Membership row there is, and
\* so every reference to a user, is soft-deleted.
C23_Witness ==
  /\ last.op = "hard_delete_user_by_id"
  /\ last.status = "Error"
  /\ \A m \in DOMAIN memberships : is_deleted(memberships[m])
  /\ ReferencedUsers # {}

\* ------------------------------------------------- update and uniqueness
\* Requests that change the name, the email, nothing.
Unchanging ==
  [name |-> None, email |-> None, current_password |-> None,
   new_password |-> None]
Renaming(name) == [Unchanging EXCEPT !.name = name]
Readdressing(email) == [Unchanging EXCEPT !.email = email]

ActiveGroupsNamed(name) ==
  {i \in ActiveGroups : groups[i].name = name}

member_data(w, m) ==
  LET membership == w.memberships[m]
      user == w.users[membership.user_id]
  IN [membership_id |-> m, user_id |-> membership.user_id,
      user_name |-> user.name, user_email |-> user.email,
      joined_at |-> membership.created_at,
      is_active |-> is_active(membership)]

\* (a listing that joins active users only)
get_group_members_of_active_users(w, group_id, include_deleted) ==
  {member_data(w, m) :
     m \in {i \in DOMAIN w.memberships :
              /\ w.memberships[i].user_id \in DOMAIN w.users
              /\ is_active(w.users[w.memberships[i].user_id])
              /\ w.memberships[i].group_id = group_id
              /\ include_deleted \/ is_active(w.memberships[i])}}

\* db.query(Membership).join(User).filter(...).all(), as the set of its
\* entries: the inner join keeps the Membership rows whose user row exists.
get_group_members(w, group_id, include_deleted) ==
  {member_data(w, m) :
     m \in {i \in DOMAIN w.memberships :
              /\ w.memberships[i].user_id \in DOMAIN w.users
              /\ w.memberships[i].group_id = group_id
              /\ include_deleted \/ is_active(w.memberships[i])}}

\* The Membership rows of a group.
MembershipsOf(w, group_id) ==
  {m \in DOMAIN w.memberships : w.memberships[m].group_id = group_id}

\* C25: get_group_members lists one entry per active Membership of the
\* group, and with include_deleted one per Membership of the group; each
\* entry carries the membership's own is_active, its user_id, created_at
\* and the user's name and email, whether the user is soft-deleted or not;
\* after a remove and a new add of a pair, include_deleted lists the old
\* row as inactive and the new row as active.
C25_MembersListed ==
  \A g \in GroupIds :
    LET listed == get_group_members(World, g, FALSE)
        all == get_group_members(World, g, TRUE)
    IN /\ {r.membership_id : r \in listed} =
            {m \in MembershipsOf(World, g) : is_active(memberships[m])}
       /\ Cardinality(listed) =
            Cardinality({m \in MembershipsOf(World, g) :
                           is_active(memberships[m])})
       /\ {r.membership_id : r \in all} = MembershipsOf(World, g)
       /\ Cardinality(all) = Cardinality(MembershipsOf(World, g))
       /\ listed \subseteq all
       /\ \A r \in all :
            LET m == memberships[r.membership_id]
            IN /\ r.is_active = is_active(m)
               /\ r.user_id = m.user_id
               /\ r.joined_at = m.created_at
               /\ r.user_name = users[m.user_id].name
               /\ r.user_email = users[m.user_id].email
       /\ \A u \in UserIds :
            \A removed \in remove_member_from_group(World, g, u) :
              LET added == add_member_to_group(removed.w, g, u)
              IN (removed.status = "OK" /\ added.status = "Created")
                   => \E old \in ActiveMemberships(World, u, g) :
                        LET after == get_group_members(added.w, g, TRUE)
                        IN /\ member_data(added.w, old) \in after
                           /\ ~member_data(added.w, old).is_active
                           /\ member_data(added.w, added.ret) \in after
                           /\ member_data(added.w, added.ret).is_active
                           /\ added.ret # old

\* A pair was removed and has just been added again: the group's full
\* listing holds an inactive and an active entry of one user.
C25_Witness ==
  /\ last.op = "add_member_to_group"
  /\ last.status = "Created"
  /\ \E g \in GroupIds :
       \E a, b \in get_group_members(World, g, TRUE) :
         a.user_id = b.user_id /\ a.is_active /\ ~b.is_active

\* --------------------------------------------- restore onto a taken value
\* C26: a restore of a soft-deleted user whose name or email an active user
\* holds, or of a soft-deleted group whose name an active group holds,
\* never answers False: either it commits and returns True, and two active
\* records then share the value, or its commit raises and it has rolled
\* back, leaving the tables as they were.
C26_RestoreChecksNothing ==
  /\ \A u \in DOMAIN users \ ActiveUsers :
       (ActiveWithName(users[u].name) # {}
          \/ ActiveWithEmail(users[u].email) # {})
         => LET r == restore_user_by_id(World, u)
            IN \/ /\ r.status = "OK"
                  /\ r.commits = 1
                  /\ is_active(r.w.users[u])
                  /\ \E v \in ActiveUsers :
                       /\ is_active(r.w.users[v])
                       /\ \/ r.w.users[v].name = r.w.users[u].name
                          \/ r.w.users[v].email = r.w.users[u].email
               \/ /\ r.status = "Error"
                  /\ r.rollbacks = 1
                  /\ r.w = World
  /\ \A g \in DOMAIN groups \ ActiveGroups :
       ActiveGroupsNamed(groups[g].name) # {}
         => LET r == restore_group_by_id(World, g)
            IN \/ /\ r.status = "OK"
                  /\ r.commits = 1
                  /\ is_active(r.w.groups[g])
                  /\ \E h \in ActiveGroups :
                       /\ is_active(r.w.groups[h])
                       /\ r.w.groups[h].name = r.w.groups[g].name
               \/ /\ r.status = "Error"
                  /\ r.rollbacks = 1
                  /\ r.w = World

\* A restore has just raised for a soft-deleted user whose name an active
\* user holds.
C26_Witness ==
  /\ last.op = "restore_user_by_id"
  /\ last.status = "Error"
  /\ \E u \in DOMAIN users \ ActiveUsers : ActiveWithName(users[u].name) # {}

\* ------------------------------------------------ every id classified once
\* C27: a bulk add that passes the group check and returns its summary
\* has added_count + already_member_count + len(errors) = len(user_ids),
\* and a bulk remove that returns its summary has removed_count +
\* not_member_count + len(errors) = len(user_ids), for every list, with
\* repeated ids or not; a bulk add fails the group check only when the
\* group is not active.
C27_EveryIdClassifiedOnce ==
  \A g \in GroupIds, ids \in UserIdLists :
    /\ LET r == add_multiple_members_to_group(World, g, ids)
       IN /\ r.status \in {"Created", "NotFoundGroup", "Error"}
          /\ r.status = "NotFoundGroup" <=> g \notin ActiveGroups
          /\ r.status = "Created"
               => r.ret.added_count + r.ret.already_member_count
                    + Len(r.ret.errors) = Len(ids)
    /\ \A r \in remove_multiple_members_from_group(World, g, ids) :
         /\ r.status \in {"OK", "Error"}
         /\ r.status = "OK"
              => r.ret.removed_count + r.ret.not_member_count
                   + Len(r.ret.errors) = Len(ids)

\* A bulk add has just returned a summary with an added id, an id that
\* was a member already and an id in error.
C27_Witness ==
  /\ last.op = "add_multiple_members_to_group"
  /\ last.status = "Created"
  /\ last.ret.added_count >= 1
  /\ last.ret.already_member_count >= 1
  /\ Len(last.ret.errors) >= 1

\* --------------------------------------------- bulk remove asks no group
\* C28: remove_multiple_members_from_group never looks the group up.  For
\* a group id no row has, or a soft-deleted group's, it never answers
\* NotFoundGroup; the summary it returns counts every listed id without
\* an active membership in that group as not_member, and every listed
\* id that has an active Membership row of that group has such a row
\* soft-deleted by the call.
C28_BulkRemoveAsksNoGroup ==
  \A g \in GroupIds \ ActiveGroups, ids \in UserIdLists :
    \A r \in remove_multiple_members_from_group(World, g, ids) :
      /\ r.status \in {"OK", "Error"}
      /\ r.status = "OK" =>
           /\ r.ret.not_member_count
                = Cardinality({i \in 1..Len(ids) :
                                 ActiveMemberships(World, ids[i], g) = {}})
           /\ r.ret.errors = << >>
           /\ \A i \in 1..Len(ids) :
                ActiveMemberships(World, ids[i], g) # {}
                  => \E m \in ActiveMemberships(World, ids[i], g) :
                       r.w.memberships[m].deleted_at # NULL

\* A bulk remove has just returned a summary with a removed id, and a
\* Membership row of a soft-deleted group carries a deleted_at later than
\* the group's.
C28_Witness ==
  /\ last.op = "remove_multiple_members_from_group"
  /\ last.status = "OK"
  /\ last.ret.removed_count >= 1
  /\ \E m \in DOMAIN memberships :
       LET g == memberships[m].group_id
       IN /\ g \in DOMAIN groups \ ActiveGroups
          /\ \E t \in memberships[m].deleted_at, d \in groups[g].deleted_at :
               t > d

\* ------------------------------------------------------------------ login
\* POST /api/auth/login with any registered email and password.
UserLogins == [email : Emails, password : Passwords]

Login ==
  \E user_login \in UserLogins :
    \E r \in login_user(World, user_login) : Apply("login_user", r)

NextLogins ==
  \/ CreateUser
  \/ UpdateUser
  \/ SoftDeleteUser
  \/ RestoreUser
  \/ Login

\* Users registered, updated, soft-deleted and restored, and logins, one
\* request at a time.
SpecLogins == InitEntities /\ [][NextLogins]_vars

\* The world with the soft-deleted users' rows taken out.
WithoutDeletedUsers ==
  [World EXCEPT !.users = [i \in ActiveUsers |-> users[i]]]

\* What the caller of a login sees of its outcomes.
Answers(outcomes) == {[status |-> r.status, ret |-> r.ret] : r \in outcomes}

\* C29: authenticate_user returns a user only if that user is active, has
\* the given email and the password verifies against that user's hash;
\* login answers 401 whenever no active user with the email has that
\* password, so a soft-deleted user's correct password is refused, and
\* 200 for the authenticated user otherwise; the soft-deleted rows have no
\* influence on any login's answer, so once an email is reused the login
\* is decided by the active holder's password alone.  A login writes
\* nothing.
C29_OnlyActiveUsersLogIn ==
  \A user_login \in UserLogins :
    LET email == user_login.email
        password == user_login.password
        verifying == {u \in ActiveWithEmail(email) :
                        verify_password(password, users[u].password)}
    IN /\ \A a \in authenticate_user(World, email, password) :
            a \subseteq verifying /\ Cardinality(a) <= 1
       /\ \A r \in login_user(World, user_login) :
            /\ r.status \in {"OK", "Unauthorized"}
            /\ r.w = World
            /\ r.status = "OK" =>
                 /\ login_status(r.status) = 200
                 /\ r.ret.user.id \in verifying
                 /\ r.ret.access_token.claims.sub = email
            /\ r.status = "Unauthorized" =>
                 /\ login_status(r.status) = 401
                 /\ ActiveWithEmail(email) \ verifying # {}
                      \/ ActiveWithEmail(email) = {}
            /\ verifying = {} => r.status = "Unauthorized"
       /\ Answers(login_user(World, user_login))
            = Answers(login_user(WithoutDeletedUsers, user_login))

\* A login with the password of a soft-deleted user has just been refused
\* although the email is held again, by an active user with another
\* password.
C29_Witness ==
  /\ last.op = "login_user"
  /\ last.status = "Unauthorized"
  /\ \E d \in DOMAIN users \ ActiveUsers, password \in Passwords :
       /\ verify_password(password, users[d].password)
       /\ ActiveWithEmail(users[d].email) # {}
       /\ \A u \in ActiveWithEmail(users[d].email) :
            ~verify_password(password, users[u].password)

\* ------------------------------------------------- membership history
\* A step keeps the membership history: every Membership row stays, for
\* the same user and group and with its created_at, and a row that has a
\* deleted_at keeps having one.
HistoryKept ==
  /\ DOMAIN memberships \subseteq DOMAIN memberships'
  /\ \A m \in DOMAIN memberships :
       /\ memberships'[m].user_id = memberships[m].user_id
       /\ memberships'[m].group_id = memberships[m].group_id
       /\ memberships'[m].created_at = memberships[m].created_at
       /\ memberships[m].deleted_at # NULL
            => memberships'[m].deleted_at # NULL

\* C30: no call of add_member_to_group, remove_member_from_group,
\* add_multiple_members_to_group or remove_multiple_members_from_group
\* removes a Membership row or clears a deleted_at that was set: over
\* every step the set of rows only grows and a soft-deleted row stays
\* soft-deleted, also while the users and the group are being
\* soft-deleted.
C30_MembershipHistoryMonotonic == [][HistoryKept]_vars

\* A user who left a group has joined it again: the row of the first
\* membership is still there, soft-deleted, beside the new active one.
C30_Witness ==
  /\ last.op \in {"add_member_to_group", "add_multiple_members_to_group"}
  /\ last.status = "Created"
  /\ \E m, n \in DOMAIN memberships :
       /\ memberships[m].user_id = memberships[n].user_id
       /\ memberships[m].group_id = memberships[n].group_id
       /\ memberships[m].deleted_at # NULL
       /\ memberships[n].deleted_at = NULL
       /\ n = nextMembershipId - 1

====
